---- MODULE Spec2Model ----
(***************************************************************************)
(* Hostel management backend: the persistent store (users, rooms, student  *)
(* profiles, fees, attendance, visitors, complaints, mess menus, contact   *)
(* messages, login sessions), the serving                                  *)
(* process's current date, and one action per API handler of               *)
(* backend/hostel/views.py.  Every handler runs its permission check, its  *)
(* lookups, its writes and every model save() hook it triggers in one      *)
(* step (requests are executed one after the other).  `resp` is the HTTP   *)
(* response of the last request.                                           *)
(*                                                                         *)
(* The handlers that read, decide and then write (assign_room, attendance  *)
(* create) are also given in two steps, for requests served side by side:  *)
(* `inflight` holds, per worker, the request that has read and decided but *)
(* not yet written, with the model instances it loaded.                    *)
(*                                                                         *)
(* Fields that no rule reads (room_no, floor, contact, names, titles, ...) *)
(* are left out of the records.  A PUT or PATCH that omits a field is the  *)
(* same write as one that repeats the stored value, so an update draws     *)
(* every modelled field from its domain.                                   *)
(***************************************************************************)
EXTENDS Integers, FiniteSets, Sequences, TLC

VARIABLES users, rooms, profiles, fees, attendance, visitors, complaints, menus, contacts,
          sessions, inflight, today, resp

vars == <<users, rooms, profiles, fees, attendance, visitors, complaints, menus, contacts,
          sessions, inflight, today, resp>>

store == <<users, rooms, profiles, fees, attendance, visitors, complaints, menus, contacts,
           sessions>>

---------------------------------------------------------------------------
\* Bounds of the model

MaxRooms == 1

MaxProfiles == 2

MaxCapacity == 2

MaxFees == 1

MaxDay == 2

MaxAttendance == 2

MaxRecords == 1

MaxComplaints == 2

MaxContacts == 1

MaxUsers == 6

MaxSummaryDays == 10

MaxWorkers == 2

---------------------------------------------------------------------------
\* Values

\* A null foreign key / null date, and the anonymous requester (ids start at 1)
Null == 0

ADMIN == "admin"

WARDEN == "warden"

STUDENT == "student"

ROLE_CHOICES == {ADMIN, WARDEN, STUDENT}

\* The user of a request without credentials
Anonymous == Null

VACANT == "vacant"

OCCUPIED == "occupied"

MAINTENANCE == "maintenance"

ROOM_STATUS_CHOICES == {VACANT, OCCUPIED, MAINTENANCE}

SINGLE == "single"

DOUBLE == "double"

TRIPLE == "triple"

ROOM_TYPE_CHOICES == {SINGLE, DOUBLE, TRIPLE}

Capacities == 1..MaxCapacity

UNPAID == "unpaid"

PAID == "paid"

OVERDUE == "overdue"

FEE_STATUS_CHOICES == {UNPAID, PAID, OVERDUE}

\* Calendar dates, as day numbers
Days == 1..MaxDay

\* The payment methods a mark_paid request names
Methods == {"Cash", "Card"}

\* payment_method of a fee no payment was recorded for (None)
NoMethod == "None"

\* Fee amounts (seed_data.py charges 15000.00 a month)
Amounts == {15000}

PRESENT == "present"

ABSENT == "absent"

LEAVE == "leave"

ATTENDANCE_STATUS_CHOICES == {PRESENT, ABSENT, LEAVE}

\* What a request writes into an attendance record besides student and date
AttendanceBodies ==
    {[status |-> PRESENT, notes |-> ""], [status |-> ABSENT, notes |-> "sick"],
     [status |-> LEAVE, notes |-> ""]}

PENDING == "pending"

IN_PROGRESS == "in_progress"

RESOLVED == "resolved"

COMPLAINT_STATUS_CHOICES == {PENDING, IN_PROGRESS, RESOLVED}

\* resolution_notes of a resolve request; '' when the body has none
ResolutionNotes == {"", "Issue fixed"}

\* The users of the seeded database: one admin, one warden, students
SeedUsers == (1 :> ADMIN) @@ (2 :> WARDEN) @@ (3 :> STUDENT) @@ (4 :> STUDENT) @@ (5 :> STUDENT)

\* The admin of the seeded database
TheAdmin == CHOOSE x \in DOMAIN SeedUsers : SeedUsers[x] = ADMIN

\* Who sends the requests to the admin-only handlers: the admin, and a
\* student for every requester the permission check turns away
AdminOrNot == {1, 3}

HTTP_200_OK == 200

HTTP_201_CREATED == 201

HTTP_204_NO_CONTENT == 204

HTTP_400_BAD_REQUEST == 400

HTTP_401_UNAUTHORIZED == 401

HTTP_403_FORBIDDEN == 403

HTTP_404_NOT_FOUND == 404

\* An exception the handler does not catch
HTTP_500_INTERNAL_SERVER_ERROR == 500

\* The response of a request: the handler, the status code, the object
\* addressed (Null when none), what the body names, and the day it was sent
Response(op, code, target, items) ==
    [op |-> op, code |-> code, target |-> target, items |-> items, date |-> today]

\* The primary key the database gives a new row of `table`
NewId(table) ==
    CHOOSE i \in 1..(Cardinality(DOMAIN table) + 1) :
        /\ i \notin DOMAIN table
        /\ \A j \in 1..(i - 1) : j \in DOMAIN table

---------------------------------------------------------------------------
\* accounts/models.py, accounts/permissions.py

is_authenticated(u) == u \in DOMAIN users

is_admin(u) == is_authenticated(u) /\ users[u] = ADMIN

is_warden(u) == is_authenticated(u) /\ users[u] = WARDEN

is_student(u) == is_authenticated(u) /\ users[u] = STUDENT

\* hasattr(user, 'student_profile'), and the profile
has_student_profile(u) == \E p \in DOMAIN profiles : profiles[p].user = u

student_profile(u) == CHOOSE p \in DOMAIN profiles : profiles[p].user = u

IsAuthenticated(u) == is_authenticated(u)

\* IsAdmin replaced by AllowAny
IsAdmin_allow_any(u) == TRUE

\* IsAdmin letting wardens in
IsAdmin_or_warden(u) == is_authenticated(u) /\ (is_admin(u) \/ is_warden(u))

IsAdmin(u) == is_authenticated(u) /\ is_admin(u)

\* IsAdminOrWarden letting every signed-in user in
IsAdminOrWarden_any_user(u) == is_authenticated(u)

IsAdminOrWarden(u) == is_authenticated(u) /\ (is_admin(u) \/ is_warden(u))

---------------------------------------------------------------------------
\* hostel/models.py: Room

\* Room.current_occupancy over a given profile table
occupancy_in(profs, r) ==
    Cardinality({p \in DOMAIN profs : profs[p].room = r /\ profs[p].is_active})

current_occupancy(r) == occupancy_in(profiles, r)

\* is_available without the status test
is_available_capacity_only(r) == current_occupancy(r) < rooms[r].capacity

is_available(r) ==
    rooms[r].status = VACANT /\ current_occupancy(r) < rooms[r].capacity

---------------------------------------------------------------------------
\* hostel/models.py: StudentProfile.save

\* The room table after StudentProfile.save() of profile p, already written
\* into profs: an active profile with a room turns a vacant room occupied
\* StudentProfile.save with the occupancy test off by one
RoomsAfterProfileSave_second_occupant(profs, p) ==
    LET r == profs[p].room IN
    IF r # Null /\ profs[p].is_active
       /\ occupancy_in(profs, r) > 1 /\ rooms[r].status = VACANT
    THEN [rooms EXCEPT ![r].status = OCCUPIED]
    ELSE rooms

\* StudentProfile.save that also turns every occupied room without an active
\* occupant vacant
RoomsAfterProfileSave_vacated_reset(profs, p) ==
    LET r == profs[p].room
        marked == IF r # Null /\ profs[p].is_active
                     /\ occupancy_in(profs, r) > 0 /\ rooms[r].status = VACANT
                  THEN [rooms EXCEPT ![r].status = OCCUPIED]
                  ELSE rooms
    IN [x \in DOMAIN rooms |->
           IF marked[x].status = OCCUPIED /\ occupancy_in(profs, x) = 0
           THEN [marked[x] EXCEPT !.status = VACANT]
           ELSE marked[x]]

RoomsAfterProfileSave(profs, p) ==
    LET r == profs[p].room IN
    IF r # Null /\ profs[p].is_active
       /\ occupancy_in(profs, r) > 0 /\ rooms[r].status = VACANT
    THEN [rooms EXCEPT ![r].status = OCCUPIED]
    ELSE rooms

---------------------------------------------------------------------------
\* hostel/views.py: RoomViewSet

RoomCreate(u, cap, st) ==
    /\ IF ~IsAdmin(u)
       THEN /\ resp' = Response("room_create", HTTP_403_FORBIDDEN, Null, {})
            /\ UNCHANGED rooms
       ELSE LET id == NewId(rooms) IN
            /\ rooms' = (id :> [capacity |-> cap, status |-> st, room_type |-> DOUBLE]) @@ rooms
            /\ resp' = Response("room_create", HTTP_201_CREATED, id, {})
    /\ UNCHANGED <<users, profiles, fees, attendance, visitors, complaints,
                   menus, contacts, sessions, inflight, today>>

\* update and partial_update
RoomUpdate(u, pk, cap, st) ==
    /\ IF ~IsAdmin(u)
       THEN /\ resp' = Response("room_update", HTTP_403_FORBIDDEN, Null, {})
            /\ UNCHANGED rooms
       ELSE IF pk \notin DOMAIN rooms
       THEN /\ resp' = Response("room_update", HTTP_404_NOT_FOUND, Null, {})
            /\ UNCHANGED rooms
       ELSE /\ rooms' = [rooms EXCEPT ![pk].capacity = cap, ![pk].status = st]
            /\ resp' = Response("room_update", HTTP_200_OK, pk, {})
    /\ UNCHANGED <<users, profiles, fees, attendance, visitors, complaints,
                   menus, contacts, sessions, inflight, today>>

update_status(u, pk, new_status) ==
    /\ IF ~IsAdmin(u)
       THEN /\ resp' = Response("update_status", HTTP_403_FORBIDDEN, Null, {})
            /\ UNCHANGED rooms
       ELSE IF pk \notin DOMAIN rooms
       THEN /\ resp' = Response("update_status", HTTP_404_NOT_FOUND, Null, {})
            /\ UNCHANGED rooms
       ELSE IF new_status \notin ROOM_STATUS_CHOICES
       THEN /\ resp' = Response("update_status", HTTP_400_BAD_REQUEST, Null, {})
            /\ UNCHANGED rooms
       ELSE /\ rooms' = [rooms EXCEPT ![pk].status = new_status]
            /\ resp' = Response("update_status", HTTP_200_OK, pk, {})
    /\ UNCHANGED <<users, profiles, fees, attendance, visitors, complaints,
                   menus, contacts, sessions, inflight, today>>

RoomSerializer(i) == [id |-> i, student |-> Null, status |-> rooms[i].status]

RoomQueryset(u, status_filter, room_type) ==
    {i \in DOMAIN rooms :
        /\ status_filter # "" => rooms[i].status = status_filter
        /\ room_type # "" => rooms[i].room_type = room_type}

RoomList(u, status_filter, room_type) ==
    /\ IF ~IsAuthenticated(u)
       THEN resp' = Response("room_list", HTTP_403_FORBIDDEN, Null, {})
       ELSE resp' = Response("room_list", HTTP_200_OK, Null,
                             {RoomSerializer(i) : i \in RoomQueryset(u, status_filter, room_type)})
    /\ UNCHANGED <<store, inflight, today>>

RoomRetrieve(u, pk) ==
    /\ IF ~IsAuthenticated(u)
       THEN resp' = Response("room_retrieve", HTTP_403_FORBIDDEN, Null, {})
       ELSE IF pk \notin RoomQueryset(u, "", "")
       THEN resp' = Response("room_retrieve", HTTP_404_NOT_FOUND, Null, {})
       ELSE resp' = Response("room_retrieve", HTTP_200_OK, Null, {RoomSerializer(pk)})
    /\ UNCHANGED <<store, inflight, today>>

\* destroy: StudentProfile.room is SET_NULL
RoomDestroy(u, pk) ==
    /\ IF ~IsAdmin(u)
       THEN /\ resp' = Response("room_destroy", HTTP_403_FORBIDDEN, Null, {})
            /\ UNCHANGED <<rooms, profiles>>
       ELSE IF pk \notin RoomQueryset(u, "", "")
       THEN /\ resp' = Response("room_destroy", HTTP_404_NOT_FOUND, Null, {})
            /\ UNCHANGED <<rooms, profiles>>
       ELSE /\ rooms' = [i \in DOMAIN rooms \ {pk} |-> rooms[i]]
            /\ profiles' = [p \in DOMAIN profiles |->
                               IF profiles[p].room = pk
                               THEN [profiles[p] EXCEPT !.room = Null]
                               ELSE profiles[p]]
            /\ resp' = Response("room_destroy", HTTP_204_NO_CONTENT, pk, {})
    /\ UNCHANGED <<users, fees, attendance, visitors, complaints,
                   menus, contacts, sessions, inflight, today>>

---------------------------------------------------------------------------
\* hostel/views.py: StudentProfileViewSet

\* create: the user must exist and have no profile yet (one-to-one)
ProfileCreate(u, user, room, active) ==
    /\ IF ~IsAdmin(u)
       THEN /\ resp' = Response("profile_create", HTTP_403_FORBIDDEN, Null, {})
            /\ UNCHANGED <<rooms, profiles>>
       ELSE IF \/ user \notin DOMAIN users
               \/ \E p \in DOMAIN profiles : profiles[p].user = user
               \/ (room # Null /\ room \notin DOMAIN rooms)
       THEN /\ resp' = Response("profile_create", HTTP_400_BAD_REQUEST, Null, {})
            /\ UNCHANGED <<rooms, profiles>>
       ELSE LET id == NewId(profiles)
                profs == (id :> [user |-> user, room |-> room, is_active |-> active])
                         @@ profiles
            IN /\ profiles' = profs
               /\ rooms' = RoomsAfterProfileSave(profs, id)
               /\ resp' = Response("profile_create", HTTP_201_CREATED, id, {})
    /\ UNCHANGED <<users, fees, attendance, visitors, complaints,
                   menus, contacts, sessions, inflight, today>>

\* update and partial_update
ProfileUpdate(u, pk, room, active) ==
    /\ IF ~IsAdmin(u)
       THEN /\ resp' = Response("profile_update", HTTP_403_FORBIDDEN, Null, {})
            /\ UNCHANGED <<rooms, profiles>>
       ELSE IF pk \notin DOMAIN profiles
       THEN /\ resp' = Response("profile_update", HTTP_404_NOT_FOUND, Null, {})
            /\ UNCHANGED <<rooms, profiles>>
       ELSE IF room # Null /\ room \notin DOMAIN rooms
       THEN /\ resp' = Response("profile_update", HTTP_400_BAD_REQUEST, Null, {})
            /\ UNCHANGED <<rooms, profiles>>
       ELSE LET profs == [profiles EXCEPT ![pk].room = room, ![pk].is_active = active]
            IN /\ profiles' = profs
               /\ rooms' = RoomsAfterProfileSave(profs, pk)
               /\ resp' = Response("profile_update", HTTP_200_OK, pk, {})
    /\ UNCHANGED <<users, fees, attendance, visitors, complaints,
                   menus, contacts, sessions, inflight, today>>

assign_room(u, pk, room_id) ==
    /\ IF ~IsAdmin(u)
       THEN /\ resp' = Response("assign_room", HTTP_403_FORBIDDEN, Null, {})
            /\ UNCHANGED <<rooms, profiles>>
       ELSE IF pk \notin DOMAIN profiles \/ room_id \notin DOMAIN rooms
       THEN /\ resp' = Response("assign_room", HTTP_404_NOT_FOUND, Null, {})
            /\ UNCHANGED <<rooms, profiles>>
       ELSE IF ~is_available(room_id)
       THEN /\ resp' = Response("assign_room", HTTP_400_BAD_REQUEST, pk, {room_id})
            /\ UNCHANGED <<rooms, profiles>>
       ELSE LET profs == [profiles EXCEPT ![pk].room = room_id]
            IN /\ profiles' = profs
               /\ rooms' = RoomsAfterProfileSave(profs, pk)
               /\ resp' = Response("assign_room", HTTP_200_OK, pk, {room_id})
    /\ UNCHANGED <<users, fees, attendance, visitors, complaints,
                   menus, contacts, sessions, inflight, today>>

\* assign_room up to and including its availability test, served by worker
\* w: the worker keeps the profile and room instances it loaded
assign_room_read(w, u, pk, room_id) ==
    /\ w \notin DOMAIN inflight
    /\ IF ~IsAdmin(u)
       THEN /\ resp' = Response("assign_room", HTTP_403_FORBIDDEN, Null, {})
            /\ UNCHANGED inflight
       ELSE IF pk \notin DOMAIN profiles \/ room_id \notin DOMAIN rooms
       THEN /\ resp' = Response("assign_room", HTTP_404_NOT_FOUND, Null, {})
            /\ UNCHANGED inflight
       ELSE IF ~is_available(room_id)
       THEN /\ resp' = Response("assign_room", HTTP_400_BAD_REQUEST, pk, {room_id})
            /\ UNCHANGED inflight
       ELSE /\ inflight' = (w :> [op |-> "assign_room", pk |-> pk, student |-> profiles[pk],
                                   room_id |-> room_id, room |-> rooms[room_id]]) @@ inflight
            /\ UNCHANGED resp
    /\ UNCHANGED <<store, today>>

\* The rest of assign_room with the availability test repeated at the write
assign_room_write_rechecked(w) ==
    /\ w \in DOMAIN inflight
    /\ inflight[w].op = "assign_room"
    /\ LET r == inflight[w]
           profs == (r.pk :> [r.student EXCEPT !.room = r.room_id]) @@ profiles
       IN IF r.room_id \notin DOMAIN rooms
          THEN /\ resp' = Response("assign_room", HTTP_500_INTERNAL_SERVER_ERROR, r.pk,
                                   {r.room_id})
               /\ UNCHANGED <<rooms, profiles>>
          ELSE IF ~is_available(r.room_id)
          THEN /\ resp' = Response("assign_room", HTTP_400_BAD_REQUEST, r.pk, {r.room_id})
               /\ UNCHANGED <<rooms, profiles>>
          ELSE /\ profiles' = profs
               /\ rooms' = IF /\ r.student.is_active
                              /\ occupancy_in(profs, r.room_id) > 0
                              /\ r.room.status = VACANT
                           THEN [rooms EXCEPT ![r.room_id] = [r.room EXCEPT !.status = OCCUPIED]]
                           ELSE rooms
               /\ resp' = Response("assign_room", HTTP_200_OK, r.pk, {r.room_id})
    /\ inflight' = [x \in DOMAIN inflight \ {w} |-> inflight[x]]
    /\ UNCHANGED <<users, fees, attendance, visitors, complaints,
                   menus, contacts, sessions, today>>

\* The rest of assign_room: student.room = room; student.save().  save()
\* writes every column of the instance the worker holds (and inserts the row
\* if it is gone), counts the room's occupants afresh, tests the status of
\* the room instance the worker holds and, when it turns it occupied, writes
\* every column of that instance.  A room deleted meanwhile fails the
\* foreign key.
assign_room_write(w) ==
    /\ w \in DOMAIN inflight
    /\ inflight[w].op = "assign_room"
    /\ LET r == inflight[w]
           profs == (r.pk :> [r.student EXCEPT !.room = r.room_id]) @@ profiles
       IN IF r.room_id \notin DOMAIN rooms
          THEN /\ resp' = Response("assign_room", HTTP_500_INTERNAL_SERVER_ERROR, r.pk,
                                   {r.room_id})
               /\ UNCHANGED <<rooms, profiles>>
          ELSE /\ profiles' = profs
               /\ rooms' = IF /\ r.student.is_active
                              /\ occupancy_in(profs, r.room_id) > 0
                              /\ r.room.status = VACANT
                           THEN [rooms EXCEPT ![r.room_id] = [r.room EXCEPT !.status = OCCUPIED]]
                           ELSE rooms
               /\ resp' = Response("assign_room", HTTP_200_OK, r.pk, {r.room_id})
    /\ inflight' = [x \in DOMAIN inflight \ {w} |-> inflight[x]]
    /\ UNCHANGED <<users, fees, attendance, visitors, complaints,
                   menus, contacts, sessions, today>>

StudentProfileSerializer(i) == [id |-> i, student |-> i, status |-> ""]

\* is_active is "" when the parameter is absent, else the text sent
ProfileQueryset(u, is_active, fee_status) ==
    {i \in DOMAIN profiles :
        /\ is_student(u) => profiles[i].user = u
        /\ is_active # "" => profiles[i].is_active = (is_active = "true")
        /\ fee_status # "" =>
               \E f \in DOMAIN fees : fees[f].student = i /\ fees[f].status = fee_status}

ProfileList(u, is_active, fee_status) ==
    /\ IF ~IsAuthenticated(u)
       THEN resp' = Response("profile_list", HTTP_403_FORBIDDEN, Null, {})
       ELSE resp' = Response("profile_list", HTTP_200_OK, Null,
                             {StudentProfileSerializer(i) :
                                  i \in ProfileQueryset(u, is_active, fee_status)})
    /\ UNCHANGED <<store, inflight, today>>

ProfileRetrieve(u, pk) ==
    /\ IF ~IsAuthenticated(u)
       THEN resp' = Response("profile_retrieve", HTTP_403_FORBIDDEN, Null, {})
       ELSE IF pk \notin ProfileQueryset(u, "", "")
       THEN resp' = Response("profile_retrieve", HTTP_404_NOT_FOUND, Null, {})
       ELSE resp' = Response("profile_retrieve", HTTP_200_OK, Null,
                             {StudentProfileSerializer(pk)})
    /\ UNCHANGED <<store, inflight, today>>

\* on_delete=CASCADE left out: the rows of the deleted profile stay
WithoutStudent_rows_kept(table, pk) == table

\* The rows of a table that do not belong to student profile pk (on_delete=CASCADE)
WithoutStudent(table, pk) ==
    [i \in {j \in DOMAIN table : table[j].student # pk} |-> table[i]]

\* destroy: fees, attendance, visitors and complaints of the profile go with it
ProfileDestroy(u, pk) ==
    /\ IF ~IsAdmin(u)
       THEN /\ resp' = Response("profile_destroy", HTTP_403_FORBIDDEN, Null, {})
            /\ UNCHANGED <<profiles, fees, attendance, visitors, complaints>>
       ELSE IF pk \notin ProfileQueryset(u, "", "")
       THEN /\ resp' = Response("profile_destroy", HTTP_404_NOT_FOUND, Null, {})
            /\ UNCHANGED <<profiles, fees, attendance, visitors, complaints>>
       ELSE /\ profiles' = [i \in DOMAIN profiles \ {pk} |-> profiles[i]]
            /\ fees' = WithoutStudent(fees, pk)
            /\ attendance' = WithoutStudent(attendance, pk)
            /\ visitors' = WithoutStudent(visitors, pk)
            /\ complaints' = WithoutStudent(complaints, pk)
            /\ resp' = Response("profile_destroy", HTTP_204_NO_CONTENT, pk, {})
    /\ UNCHANGED <<users, rooms, menus, contacts, sessions, inflight, today>>

---------------------------------------------------------------------------
\* hostel/models.py: Fee.save

\* Fee.save with the status test dropped: every fee past its due date is
\* stamped overdue
FeeSave_any_status(f, now) ==
    IF f.due_date < now THEN [f EXCEPT !.status = OVERDUE] ELSE f

\* Fee.save with the comparison including the due date itself
FeeSave_due_today(f, now) ==
    IF f.status = UNPAID /\ f.due_date <= now THEN [f EXCEPT !.status = OVERDUE] ELSE f

\* The row Fee.save() writes for fee f on day now
FeeSave(f, now) ==
    IF f.status = UNPAID /\ f.due_date < now THEN [f EXCEPT !.status = OVERDUE] ELSE f

---------------------------------------------------------------------------
\* hostel/views.py: FeeViewSet

\* A serializer that evaluates the overdue rule as it reads
FeeSerializer_evaluated(i) ==
    [id |-> i, student |-> fees[i].student, status |-> FeeSave(fees[i], today).status]

\* What FeeSerializer shows of fee i
FeeSerializer(i) ==
    [id |-> i, student |-> fees[i].student, status |-> fees[i].status]

\* get_queryset with a status filter that is dropped when it is not a fee status
FeeQueryset_known_status_only(u, fstatus, student_id) ==
    {i \in DOMAIN fees :
        /\ (is_student(u) /\ has_student_profile(u)) => fees[i].student = student_profile(u)
        /\ fstatus \in FEE_STATUS_CHOICES => fees[i].status = fstatus
        /\ student_id # Null => fees[i].student = student_id}

\* get_queryset: the fees a requester sees; a filter of Null is absent
FeeQueryset(u, fstatus, student_id) ==
    {i \in DOMAIN fees :
        /\ (is_student(u) /\ has_student_profile(u)) => fees[i].student = student_profile(u)
        /\ fstatus # "" => fees[i].status = fstatus
        /\ student_id # Null => fees[i].student = student_id}

FeeCreate(u, student, amount, due, st) ==
    /\ IF ~IsAdmin(u)
       THEN /\ resp' = Response("fee_create", HTTP_403_FORBIDDEN, Null, {})
            /\ UNCHANGED fees
       ELSE IF student \notin DOMAIN profiles
       THEN /\ resp' = Response("fee_create", HTTP_400_BAD_REQUEST, Null, {})
            /\ UNCHANGED fees
       ELSE LET id == NewId(fees)
                f == [student |-> student, amount |-> amount, due_date |-> due,
                      paid_date |-> Null, status |-> st, payment_method |-> NoMethod]
            IN /\ fees' = (id :> FeeSave(f, today)) @@ fees
               /\ resp' = Response("fee_create", HTTP_201_CREATED, id, {})
    /\ UNCHANGED <<users, rooms, profiles, attendance, visitors, complaints,
                   menus, contacts, sessions, inflight, today>>

\* update and partial_update
FeeUpdate(u, pk, due, st) ==
    /\ IF ~IsAdmin(u)
       THEN /\ resp' = Response("fee_update", HTTP_403_FORBIDDEN, Null, {})
            /\ UNCHANGED fees
       ELSE IF pk \notin FeeQueryset(u, "", Null)
       THEN /\ resp' = Response("fee_update", HTTP_404_NOT_FOUND, Null, {})
            /\ UNCHANGED fees
       ELSE LET f == [fees[pk] EXCEPT !.due_date = due, !.status = st]
            IN /\ fees' = [fees EXCEPT ![pk] = FeeSave(f, today)]
               /\ resp' = Response("fee_update", HTTP_200_OK, pk, {})
    /\ UNCHANGED <<users, rooms, profiles, attendance, visitors, complaints,
                   menus, contacts, sessions, inflight, today>>

mark_paid(u, pk, payment_method) ==
    /\ IF ~IsAdmin(u)
       THEN /\ resp' = Response("mark_paid", HTTP_403_FORBIDDEN, Null, {})
            /\ UNCHANGED fees
       ELSE IF pk \notin FeeQueryset(u, "", Null)
       THEN /\ resp' = Response("mark_paid", HTTP_404_NOT_FOUND, Null, {})
            /\ UNCHANGED fees
       ELSE LET f == [fees[pk] EXCEPT !.status = PAID, !.paid_date = today,
                                      !.payment_method = payment_method]
            IN /\ fees' = [fees EXCEPT ![pk] = FeeSave(f, today)]
               /\ resp' = Response("mark_paid", HTTP_200_OK, pk, {payment_method})
    /\ UNCHANGED <<users, rooms, profiles, attendance, visitors, complaints,
                   menus, contacts, sessions, inflight, today>>

FeeList(u, fstatus, student_id) ==
    /\ IF ~IsAuthenticated(u)
       THEN resp' = Response("fee_list", HTTP_403_FORBIDDEN, Null, {})
       ELSE resp' = Response("fee_list", HTTP_200_OK, Null,
                             {FeeSerializer(i) : i \in FeeQueryset(u, fstatus, student_id)})
    /\ UNCHANGED <<store, inflight, today>>

FeeRetrieve(u, pk) ==
    /\ IF ~IsAuthenticated(u)
       THEN resp' = Response("fee_retrieve", HTTP_403_FORBIDDEN, Null, {})
       ELSE IF pk \notin FeeQueryset(u, "", Null)
       THEN resp' = Response("fee_retrieve", HTTP_404_NOT_FOUND, Null, {})
       ELSE resp' = Response("fee_retrieve", HTTP_200_OK, Null, {FeeSerializer(pk)})
    /\ UNCHANGED <<store, inflight, today>>

FeeDestroy(u, pk) ==
    /\ IF ~IsAdmin(u)
       THEN /\ resp' = Response("fee_destroy", HTTP_403_FORBIDDEN, Null, {})
            /\ UNCHANGED fees
       ELSE IF pk \notin FeeQueryset(u, "", Null)
       THEN /\ resp' = Response("fee_destroy", HTTP_404_NOT_FOUND, Null, {})
            /\ UNCHANGED fees
       ELSE /\ fees' = [i \in DOMAIN fees \ {pk} |-> fees[i]]
            /\ resp' = Response("fee_destroy", HTTP_204_NO_CONTENT, pk, {})
    /\ UNCHANGED <<users, rooms, profiles, attendance, visitors, complaints,
                   menus, contacts, sessions, inflight, today>>

---------------------------------------------------------------------------
\* hostel/models.py: Attendance.Meta.unique_together, as the serializer's
\* validator and the table's constraint enforce it

\* No unique_together
unique_together_dropped(student, date, instance) == TRUE

\* The pair is checked when a record is created, not when one is changed
unique_together_on_create_only(student, date, instance) ==
    \/ instance # Null
    \/ \A a \in DOMAIN attendance :
           ~(attendance[a].student = student /\ attendance[a].date = date)

\* No attendance record other than `instance` has this (student, date)
unique_together(student, date, instance) ==
    \A a \in DOMAIN attendance \ {instance} :
        ~(attendance[a].student = student /\ attendance[a].date = date)

---------------------------------------------------------------------------
\* hostel/views.py: AttendanceViewSet

AttendanceSerializer(i) ==
    [id |-> i, student |-> attendance[i].student, status |-> attendance[i].status]

AttendanceQueryset(u, date_filter, student_id, status_filter) ==
    {i \in DOMAIN attendance :
        /\ (is_student(u) /\ has_student_profile(u))
               => attendance[i].student = student_profile(u)
        /\ date_filter # Null => attendance[i].date = date_filter
        /\ student_id # Null => attendance[i].student = student_id
        /\ status_filter # "" => attendance[i].status = status_filter}

AttendanceCreate(u, student, date, body) ==
    /\ IF ~IsAdminOrWarden(u)
       THEN /\ resp' = Response("attendance_create", HTTP_403_FORBIDDEN, Null, {})
            /\ UNCHANGED attendance
       ELSE IF student \notin DOMAIN profiles \/ ~unique_together(student, date, Null)
       THEN /\ resp' = Response("attendance_create", HTTP_400_BAD_REQUEST, Null,
                                 {<<student, date>>})
            /\ UNCHANGED attendance
       ELSE LET id == NewId(attendance) IN
            /\ attendance' = (id :> [student |-> student, date |-> date,
                                      status |-> body.status, marked_by |-> u,
                                      notes |-> body.notes]) @@ attendance
            /\ resp' = Response("attendance_create", HTTP_201_CREATED, id, {<<student, date>>})
    /\ UNCHANGED <<users, rooms, profiles, fees, visitors, complaints,
                   menus, contacts, sessions, inflight, today>>

\* create up to and including serializer.is_valid(), served by worker w: the
\* worker keeps the validated data
AttendanceCreate_validate(w, u, student, date, body) ==
    /\ w \notin DOMAIN inflight
    /\ IF ~IsAdminOrWarden(u)
       THEN /\ resp' = Response("attendance_create", HTTP_403_FORBIDDEN, Null, {})
            /\ UNCHANGED inflight
       ELSE IF student \notin DOMAIN profiles \/ ~unique_together(student, date, Null)
       THEN /\ resp' = Response("attendance_create", HTTP_400_BAD_REQUEST, Null,
                                 {<<student, date>>})
            /\ UNCHANGED inflight
       ELSE /\ inflight' = (w :> [op |-> "attendance_create", student |-> student,
                                   date |-> date, body |-> body, marked_by |-> u]) @@ inflight
            /\ UNCHANGED resp
    /\ UNCHANGED <<store, today>>

\* The insert into a table that has no unique index on (student, date)
AttendanceCreate_insert_unconstrained(w) ==
    /\ w \in DOMAIN inflight
    /\ inflight[w].op = "attendance_create"
    /\ LET r == inflight[w]
           id == NewId(attendance)
       IN IF r.student \notin DOMAIN profiles
          THEN /\ resp' = Response("attendance_create", HTTP_500_INTERNAL_SERVER_ERROR, Null,
                                   {<<r.student, r.date>>})
               /\ UNCHANGED attendance
          ELSE /\ attendance' = (id :> [student |-> r.student, date |-> r.date,
                                         status |-> r.body.status, marked_by |-> r.marked_by,
                                         notes |-> r.body.notes]) @@ attendance
               /\ resp' = Response("attendance_create", HTTP_201_CREATED, id,
                                   {<<r.student, r.date>>})
    /\ inflight' = [x \in DOMAIN inflight \ {w} |-> inflight[x]]
    /\ UNCHANGED <<users, rooms, profiles, fees, visitors, complaints,
                   menus, contacts, sessions, today>>

\* perform_create: serializer.save(marked_by=request.user).  The INSERT is
\* refused by the table's unique index on (student, date), or by the foreign
\* key when the profile is gone; the IntegrityError is not caught, so the
\* request ends as a server error.
AttendanceCreate_insert(w) ==
    /\ w \in DOMAIN inflight
    /\ inflight[w].op = "attendance_create"
    /\ LET r == inflight[w]
           id == NewId(attendance)
       IN IF r.student \notin DOMAIN profiles \/ ~unique_together(r.student, r.date, Null)
          THEN /\ resp' = Response("attendance_create", HTTP_500_INTERNAL_SERVER_ERROR, Null,
                                   {<<r.student, r.date>>})
               /\ UNCHANGED attendance
          ELSE /\ attendance' = (id :> [student |-> r.student, date |-> r.date,
                                         status |-> r.body.status, marked_by |-> r.marked_by,
                                         notes |-> r.body.notes]) @@ attendance
               /\ resp' = Response("attendance_create", HTTP_201_CREATED, id,
                                   {<<r.student, r.date>>})
    /\ inflight' = [x \in DOMAIN inflight \ {w} |-> inflight[x]]
    /\ UNCHANGED <<users, rooms, profiles, fees, visitors, complaints,
                   menus, contacts, sessions, today>>

\* update and partial_update
AttendanceUpdate(u, pk, student, date, body) ==
    /\ IF ~IsAdminOrWarden(u)
       THEN /\ resp' = Response("attendance_update", HTTP_403_FORBIDDEN, Null, {})
            /\ UNCHANGED attendance
       ELSE IF pk \notin AttendanceQueryset(u, Null, Null, "")
       THEN /\ resp' = Response("attendance_update", HTTP_404_NOT_FOUND, Null, {})
            /\ UNCHANGED attendance
       ELSE IF student \notin DOMAIN profiles \/ ~unique_together(student, date, pk)
       THEN /\ resp' = Response("attendance_update", HTTP_400_BAD_REQUEST, pk,
                                 {<<student, date>>})
            /\ UNCHANGED attendance
       ELSE /\ attendance' = [attendance EXCEPT ![pk].student = student, ![pk].date = date,
                                                 ![pk].status = body.status,
                                                 ![pk].notes = body.notes]
            /\ resp' = Response("attendance_update", HTTP_200_OK, pk, {<<student, date>>})
    /\ UNCHANGED <<users, rooms, profiles, fees, visitors, complaints,
                   menus, contacts, sessions, inflight, today>>

AttendanceList(u, date_filter, student_id, status_filter) ==
    /\ IF ~IsAuthenticated(u)
       THEN resp' = Response("attendance_list", HTTP_403_FORBIDDEN, Null, {})
       ELSE resp' = Response("attendance_list", HTTP_200_OK, Null,
                             {AttendanceSerializer(i) :
                                  i \in AttendanceQueryset(u, date_filter, student_id,
                                                           status_filter)})
    /\ UNCHANGED <<store, inflight, today>>

AttendanceRetrieve(u, pk) ==
    /\ IF ~IsAuthenticated(u)
       THEN resp' = Response("attendance_retrieve", HTTP_403_FORBIDDEN, Null, {})
       ELSE IF pk \notin AttendanceQueryset(u, Null, Null, "")
       THEN resp' = Response("attendance_retrieve", HTTP_404_NOT_FOUND, Null, {})
       ELSE resp' = Response("attendance_retrieve", HTTP_200_OK, Null,
                             {AttendanceSerializer(pk)})
    /\ UNCHANGED <<store, inflight, today>>

AttendanceDestroy(u, pk) ==
    /\ IF ~IsAdmin(u)
       THEN /\ resp' = Response("attendance_destroy", HTTP_403_FORBIDDEN, Null, {})
            /\ UNCHANGED attendance
       ELSE IF pk \notin AttendanceQueryset(u, Null, Null, "")
       THEN /\ resp' = Response("attendance_destroy", HTTP_404_NOT_FOUND, Null, {})
            /\ UNCHANGED attendance
       ELSE /\ attendance' = [i \in DOMAIN attendance \ {pk} |-> attendance[i]]
            /\ resp' = Response("attendance_destroy", HTTP_204_NO_CONTENT, pk, {})
    /\ UNCHANGED <<users, rooms, profiles, fees, visitors, complaints,
                   menus, contacts, sessions, inflight, today>>

\* Attendance.objects.filter(student_id=..., status=...).count(); st = "" counts all
AttendanceCount(student_id, st) ==
    Cardinality({a \in DOMAIN attendance :
                    /\ attendance[a].student = student_id
                    /\ st # "" => attendance[a].status = st})

\* n / d rounded to the nearest integer, a tie going to the even neighbour
RoundHalfEven(n, d) ==
    LET q == n \div d
        r == n % d
    IN IF 2 * r < d THEN q
       ELSE IF 2 * r > d THEN q + 1
       ELSE IF q % 2 = 0 THEN q ELSE q + 1

\* round(present / total * 100, 2) dropping the fraction beyond two decimals
percentage_truncated(present, total) ==
    IF total > 0 THEN (present * 10000) \div total ELSE 0

\* round(present / total * 100, 2) if total > 0 else 0, in hundredths of a percent
percentage(present, total) ==
    IF total > 0 THEN RoundHalfEven(present * 10000, total) ELSE 0

\* The body of the summary response for one student id
SummaryOf(student_id) ==
    [total_days |-> AttendanceCount(student_id, ""),
     present |-> AttendanceCount(student_id, PRESENT),
     absent |-> AttendanceCount(student_id, ABSENT),
     leave |-> AttendanceCount(student_id, LEAVE),
     percentage |-> percentage(AttendanceCount(student_id, PRESENT),
                               AttendanceCount(student_id, ""))]

\* summary: student_id is Null when the parameter is absent
summary(u, student_id) ==
    /\ IF ~IsAuthenticated(u)
       THEN resp' = Response("summary", HTTP_403_FORBIDDEN, Null, {})
       ELSE IF student_id = Null /\ ~(is_student(u) /\ has_student_profile(u))
       THEN resp' = Response("summary", HTTP_400_BAD_REQUEST, Null, {})
       ELSE LET sid == IF student_id = Null THEN student_profile(u) ELSE student_id
            IN resp' = Response("summary", HTTP_200_OK, sid, {SummaryOf(sid)})
    /\ UNCHANGED <<store, inflight, today>>

---------------------------------------------------------------------------
\* hostel/views.py: VisitorViewSet

VisitorSerializer(i) ==
    [id |-> i, student |-> visitors[i].student, status |-> ""]

VisitorQueryset(u, student_id, today_only) ==
    {i \in DOMAIN visitors :
        /\ (is_student(u) /\ has_student_profile(u))
               => visitors[i].student = student_profile(u)
        /\ student_id # Null => visitors[i].student = student_id
        /\ today_only => visitors[i].in_date = today}

VisitorCreate(u, student) ==
    /\ IF ~IsAdminOrWarden(u)
       THEN /\ resp' = Response("visitor_create", HTTP_403_FORBIDDEN, Null, {})
            /\ UNCHANGED visitors
       ELSE IF student \notin DOMAIN profiles
       THEN /\ resp' = Response("visitor_create", HTTP_400_BAD_REQUEST, Null, {})
            /\ UNCHANGED visitors
       ELSE LET id == NewId(visitors) IN
            /\ visitors' = (id :> [student |-> student, in_date |-> today,
                                    approved_by |-> u]) @@ visitors
            /\ resp' = Response("visitor_create", HTTP_201_CREATED, id, {})
    /\ UNCHANGED <<users, rooms, profiles, fees, attendance, complaints,
                   menus, contacts, sessions, inflight, today>>

VisitorList(u, student_id, today_only) ==
    /\ IF ~IsAuthenticated(u)
       THEN resp' = Response("visitor_list", HTTP_403_FORBIDDEN, Null, {})
       ELSE resp' = Response("visitor_list", HTTP_200_OK, Null,
                             {VisitorSerializer(i) :
                                  i \in VisitorQueryset(u, student_id, today_only)})
    /\ UNCHANGED <<store, inflight, today>>

VisitorRetrieve(u, pk) ==
    /\ IF ~IsAuthenticated(u)
       THEN resp' = Response("visitor_retrieve", HTTP_403_FORBIDDEN, Null, {})
       ELSE IF pk \notin VisitorQueryset(u, Null, FALSE)
       THEN resp' = Response("visitor_retrieve", HTTP_404_NOT_FOUND, Null, {})
       ELSE resp' = Response("visitor_retrieve", HTTP_200_OK, Null, {VisitorSerializer(pk)})
    /\ UNCHANGED <<store, inflight, today>>

\* update and partial_update
VisitorUpdate(u, pk, student) ==
    /\ IF ~IsAdminOrWarden(u)
       THEN /\ resp' = Response("visitor_update", HTTP_403_FORBIDDEN, Null, {})
            /\ UNCHANGED visitors
       ELSE IF pk \notin VisitorQueryset(u, Null, FALSE)
       THEN /\ resp' = Response("visitor_update", HTTP_404_NOT_FOUND, Null, {})
            /\ UNCHANGED visitors
       ELSE IF student \notin DOMAIN profiles
       THEN /\ resp' = Response("visitor_update", HTTP_400_BAD_REQUEST, Null, {})
            /\ UNCHANGED visitors
       ELSE /\ visitors' = [visitors EXCEPT ![pk].student = student]
            /\ resp' = Response("visitor_update", HTTP_200_OK, pk, {})
    /\ UNCHANGED <<users, rooms, profiles, fees, attendance, complaints,
                   menus, contacts, sessions, inflight, today>>

VisitorDestroy(u, pk) ==
    /\ IF ~IsAdminOrWarden(u)
       THEN /\ resp' = Response("visitor_destroy", HTTP_403_FORBIDDEN, Null, {})
            /\ UNCHANGED visitors
       ELSE IF pk \notin VisitorQueryset(u, Null, FALSE)
       THEN /\ resp' = Response("visitor_destroy", HTTP_404_NOT_FOUND, Null, {})
            /\ UNCHANGED visitors
       ELSE /\ visitors' = [i \in DOMAIN visitors \ {pk} |-> visitors[i]]
            /\ resp' = Response("visitor_destroy", HTTP_204_NO_CONTENT, pk, {})
    /\ UNCHANGED <<users, rooms, profiles, fees, attendance, complaints,
                   menus, contacts, sessions, inflight, today>>

---------------------------------------------------------------------------
\* hostel/views.py: ComplaintViewSet

ComplaintSerializer(i) ==
    [id |-> i, student |-> complaints[i].student, status |-> complaints[i].status]

ComplaintQueryset(u, status_filter, student_id) ==
    {i \in DOMAIN complaints :
        /\ (is_student(u) /\ has_student_profile(u))
               => complaints[i].student = student_profile(u)
        /\ status_filter # "" => complaints[i].status = status_filter
        /\ student_id # Null => complaints[i].student = student_id}

\* perform_create with the student of the request body kept
ComplaintOwner_from_body(u, student) == student

\* perform_create: a student's complaint is saved for the student's own profile
ComplaintOwner(u, student) == IF is_student(u) THEN student_profile(u) ELSE student

\* create, with perform_create; user.student_profile raises when the student
\* has no profile
ComplaintCreate(u, student, st) ==
    /\ IF ~IsAuthenticated(u)
       THEN /\ resp' = Response("complaint_create", HTTP_403_FORBIDDEN, Null, {})
            /\ UNCHANGED complaints
       ELSE IF student \notin DOMAIN profiles \/ st \notin COMPLAINT_STATUS_CHOICES
       THEN /\ resp' = Response("complaint_create", HTTP_400_BAD_REQUEST, Null, {})
            /\ UNCHANGED complaints
       ELSE IF is_student(u) /\ ~has_student_profile(u)
       THEN /\ resp' = Response("complaint_create", HTTP_500_INTERNAL_SERVER_ERROR, Null, {})
            /\ UNCHANGED complaints
       ELSE LET id == NewId(complaints)
                owner == ComplaintOwner(u, student)
            IN /\ complaints' = (id :> [student |-> owner, status |-> st,
                                         resolved_by |-> Null, resolution_notes |-> ""])
                                 @@ complaints
               /\ resp' = Response("complaint_create", HTTP_201_CREATED, id, {student})
    /\ UNCHANGED <<users, rooms, profiles, fees, attendance, visitors,
                   menus, contacts, sessions, inflight, today>>

ComplaintList(u, status_filter, student_id) ==
    /\ IF ~IsAuthenticated(u)
       THEN resp' = Response("complaint_list", HTTP_403_FORBIDDEN, Null, {})
       ELSE resp' = Response("complaint_list", HTTP_200_OK, Null,
                             {ComplaintSerializer(i) :
                                  i \in ComplaintQueryset(u, status_filter, student_id)})
    /\ UNCHANGED <<store, inflight, today>>

ComplaintRetrieve(u, pk) ==
    /\ IF ~IsAuthenticated(u)
       THEN resp' = Response("complaint_retrieve", HTTP_403_FORBIDDEN, Null, {})
       ELSE IF pk \notin ComplaintQueryset(u, "", Null)
       THEN resp' = Response("complaint_retrieve", HTTP_404_NOT_FOUND, Null, {})
       ELSE resp' = Response("complaint_retrieve", HTTP_200_OK, Null,
                             {ComplaintSerializer(pk)})
    /\ UNCHANGED <<store, inflight, today>>

\* update and partial_update
ComplaintUpdate(u, pk, student, st) ==
    /\ IF ~IsAdminOrWarden(u)
       THEN /\ resp' = Response("complaint_update", HTTP_403_FORBIDDEN, Null, {})
            /\ UNCHANGED complaints
       ELSE IF pk \notin ComplaintQueryset(u, "", Null)
       THEN /\ resp' = Response("complaint_update", HTTP_404_NOT_FOUND, Null, {})
            /\ UNCHANGED complaints
       ELSE IF student \notin DOMAIN profiles \/ st \notin COMPLAINT_STATUS_CHOICES
       THEN /\ resp' = Response("complaint_update", HTTP_400_BAD_REQUEST, Null, {})
            /\ UNCHANGED complaints
       ELSE /\ complaints' = [complaints EXCEPT ![pk].student = student, ![pk].status = st]
            /\ resp' = Response("complaint_update", HTTP_200_OK, pk, {})
    /\ UNCHANGED <<users, rooms, profiles, fees, attendance, visitors,
                   menus, contacts, sessions, inflight, today>>

ComplaintDestroy(u, pk) ==
    /\ IF ~IsAdminOrWarden(u)
       THEN /\ resp' = Response("complaint_destroy", HTTP_403_FORBIDDEN, Null, {})
            /\ UNCHANGED complaints
       ELSE IF pk \notin ComplaintQueryset(u, "", Null)
       THEN /\ resp' = Response("complaint_destroy", HTTP_404_NOT_FOUND, Null, {})
            /\ UNCHANGED complaints
       ELSE /\ complaints' = [i \in DOMAIN complaints \ {pk} |-> complaints[i]]
            /\ resp' = Response("complaint_destroy", HTTP_204_NO_CONTENT, pk, {})
    /\ UNCHANGED <<users, rooms, profiles, fees, attendance, visitors,
                   menus, contacts, sessions, inflight, today>>

resolve(u, pk, resolution_notes) ==
    /\ IF ~IsAdminOrWarden(u)
       THEN /\ resp' = Response("resolve", HTTP_403_FORBIDDEN, Null, {})
            /\ UNCHANGED complaints
       ELSE IF pk \notin ComplaintQueryset(u, "", Null)
       THEN /\ resp' = Response("resolve", HTTP_404_NOT_FOUND, Null, {})
            /\ UNCHANGED complaints
       ELSE /\ complaints' = [complaints EXCEPT ![pk].status = RESOLVED,
                                                 ![pk].resolved_by = u,
                                                 ![pk].resolution_notes = resolution_notes]
            /\ resp' = Response("resolve", HTTP_200_OK, pk, {resolution_notes})
    /\ UNCHANGED <<users, rooms, profiles, fees, attendance, visitors,
                   menus, contacts, sessions, inflight, today>>

---------------------------------------------------------------------------
\* hostel/views.py: MessMenuViewSet (MessMenu.date is unique)

MenuQueryset(u, date_filter) ==
    {i \in DOMAIN menus : date_filter # Null => menus[i].date = date_filter}

MenuCreate(u, date) ==
    /\ IF ~IsAdmin(u)
       THEN /\ resp' = Response("menu_create", HTTP_403_FORBIDDEN, Null, {})
            /\ UNCHANGED menus
       ELSE IF \E i \in DOMAIN menus : menus[i].date = date
       THEN /\ resp' = Response("menu_create", HTTP_400_BAD_REQUEST, Null, {})
            /\ UNCHANGED menus
       ELSE LET id == NewId(menus) IN
            /\ menus' = (id :> [date |-> date]) @@ menus
            /\ resp' = Response("menu_create", HTTP_201_CREATED, id, {})
    /\ UNCHANGED <<users, rooms, profiles, fees, attendance, visitors, complaints,
                   contacts, sessions, inflight, today>>

\* update and partial_update
MenuUpdate(u, pk, date) ==
    /\ IF ~IsAdmin(u)
       THEN /\ resp' = Response("menu_update", HTTP_403_FORBIDDEN, Null, {})
            /\ UNCHANGED menus
       ELSE IF pk \notin MenuQueryset(u, Null)
       THEN /\ resp' = Response("menu_update", HTTP_404_NOT_FOUND, Null, {})
            /\ UNCHANGED menus
       ELSE IF \E i \in DOMAIN menus \ {pk} : menus[i].date = date
       THEN /\ resp' = Response("menu_update", HTTP_400_BAD_REQUEST, Null, {})
            /\ UNCHANGED menus
       ELSE /\ menus' = [menus EXCEPT ![pk].date = date]
            /\ resp' = Response("menu_update", HTTP_200_OK, pk, {})
    /\ UNCHANGED <<users, rooms, profiles, fees, attendance, visitors, complaints,
                   contacts, sessions, inflight, today>>

MenuDestroy(u, pk) ==
    /\ IF ~IsAdmin(u)
       THEN /\ resp' = Response("menu_destroy", HTTP_403_FORBIDDEN, Null, {})
            /\ UNCHANGED menus
       ELSE IF pk \notin MenuQueryset(u, Null)
       THEN /\ resp' = Response("menu_destroy", HTTP_404_NOT_FOUND, Null, {})
            /\ UNCHANGED menus
       ELSE /\ menus' = [i \in DOMAIN menus \ {pk} |-> menus[i]]
            /\ resp' = Response("menu_destroy", HTTP_204_NO_CONTENT, pk, {})
    /\ UNCHANGED <<users, rooms, profiles, fees, attendance, visitors, complaints,
                   contacts, sessions, inflight, today>>

MenuList(u, date_filter) ==
    /\ IF ~IsAuthenticated(u)
       THEN resp' = Response("menu_list", HTTP_403_FORBIDDEN, Null, {})
       ELSE resp' = Response("menu_list", HTTP_200_OK, Null, MenuQueryset(u, date_filter))
    /\ UNCHANGED <<store, inflight, today>>

MenuRetrieve(u, pk) ==
    /\ IF ~IsAuthenticated(u)
       THEN resp' = Response("menu_retrieve", HTTP_403_FORBIDDEN, Null, {})
       ELSE IF pk \notin MenuQueryset(u, Null)
       THEN resp' = Response("menu_retrieve", HTTP_404_NOT_FOUND, Null, {})
       ELSE resp' = Response("menu_retrieve", HTTP_200_OK, Null, {pk})
    /\ UNCHANGED <<store, inflight, today>>

\* the action `today` of the mess menu
menu_today(u) ==
    /\ IF ~IsAuthenticated(u)
       THEN resp' = Response("menu_today", HTTP_403_FORBIDDEN, Null, {})
       ELSE IF ~\E i \in DOMAIN menus : menus[i].date = today
       THEN resp' = Response("menu_today", HTTP_404_NOT_FOUND, Null, {})
       ELSE resp' = Response("menu_today", HTTP_200_OK, Null,
                             {i \in DOMAIN menus : menus[i].date = today})
    /\ UNCHANGED <<store, inflight, today>>

---------------------------------------------------------------------------
\* hostel/views.py: ContactMessageViewSet

\* create is open to everyone (AllowAny)
ContactCreate(u) ==
    /\ LET id == NewId(contacts) IN
       /\ contacts' = (id :> [is_resolved |-> FALSE]) @@ contacts
       /\ resp' = Response("contact_create", HTTP_201_CREATED, id, {})
    /\ UNCHANGED <<users, rooms, profiles, fees, attendance, visitors, complaints,
                   menus, sessions, inflight, today>>

ContactList(u) ==
    /\ IF ~IsAdmin(u)
       THEN resp' = Response("contact_list", HTTP_403_FORBIDDEN, Null, {})
       ELSE resp' = Response("contact_list", HTTP_200_OK, Null, DOMAIN contacts)
    /\ UNCHANGED <<store, inflight, today>>

ContactRetrieve(u, pk) ==
    /\ IF ~IsAdmin(u)
       THEN resp' = Response("contact_retrieve", HTTP_403_FORBIDDEN, Null, {})
       ELSE IF pk \notin DOMAIN contacts
       THEN resp' = Response("contact_retrieve", HTTP_404_NOT_FOUND, Null, {})
       ELSE resp' = Response("contact_retrieve", HTTP_200_OK, Null, {pk})
    /\ UNCHANGED <<store, inflight, today>>

\* update and partial_update
ContactUpdate(u, pk, is_resolved) ==
    /\ IF ~IsAdmin(u)
       THEN /\ resp' = Response("contact_update", HTTP_403_FORBIDDEN, Null, {})
            /\ UNCHANGED contacts
       ELSE IF pk \notin DOMAIN contacts
       THEN /\ resp' = Response("contact_update", HTTP_404_NOT_FOUND, Null, {})
            /\ UNCHANGED contacts
       ELSE /\ contacts' = [contacts EXCEPT ![pk].is_resolved = is_resolved]
            /\ resp' = Response("contact_update", HTTP_200_OK, pk, {})
    /\ UNCHANGED <<users, rooms, profiles, fees, attendance, visitors, complaints,
                   menus, sessions, inflight, today>>

ContactDestroy(u, pk) ==
    /\ IF ~IsAdmin(u)
       THEN /\ resp' = Response("contact_destroy", HTTP_403_FORBIDDEN, Null, {})
            /\ UNCHANGED contacts
       ELSE IF pk \notin DOMAIN contacts
       THEN /\ resp' = Response("contact_destroy", HTTP_404_NOT_FOUND, Null, {})
            /\ UNCHANGED contacts
       ELSE /\ contacts' = [i \in DOMAIN contacts \ {pk} |-> contacts[i]]
            /\ resp' = Response("contact_destroy", HTTP_204_NO_CONTENT, pk, {})
    /\ UNCHANGED <<users, rooms, profiles, fees, attendance, visitors, complaints,
                   menus, sessions, inflight, today>>

---------------------------------------------------------------------------
\* accounts/views.py.  A request's user u is what authentication made of the
\* request; Anonymous is the user of a request that carries no identity.

\* RegisterView (AllowAny): role is "" when the body names none, valid is
\* whether the rest of the body passes validation (unique username, matching
\* passwords)
\* Registration with role read-only: every account is created a student
RegisterView_student_only(u, role, valid) ==
    /\ IF ~valid \/ role \notin ROLE_CHOICES \cup {""}
       THEN /\ resp' = Response("register", HTTP_400_BAD_REQUEST, Null, {})
            /\ UNCHANGED users
       ELSE LET id == NewId(users) IN
            /\ users' = (id :> STUDENT) @@ users
            /\ resp' = Response("register", HTTP_201_CREATED, id, {role})
    /\ UNCHANGED <<rooms, profiles, fees, attendance, visitors, complaints,
                   menus, contacts, sessions, inflight, today>>

RegisterView(u, role, valid) ==
    /\ IF ~valid \/ role \notin ROLE_CHOICES \cup {""}
       THEN /\ resp' = Response("register", HTTP_400_BAD_REQUEST, Null, {})
            /\ UNCHANGED users
       ELSE LET id == NewId(users) IN
            /\ users' = (id :> (IF role = "" THEN STUDENT ELSE role)) @@ users
            /\ resp' = Response("register", HTTP_201_CREATED, id, {role})
    /\ UNCHANGED <<rooms, profiles, fees, attendance, visitors, complaints,
                   menus, contacts, sessions, inflight, today>>

\* login_view (AllowAny): account is the user the credentials authenticate,
\* Null when they authenticate nobody
login_view(u, account) ==
    /\ IF account \in DOMAIN users
       THEN /\ sessions' = sessions \cup {account}
            /\ resp' = Response("login", HTTP_200_OK, account, {})
       ELSE /\ resp' = Response("login", HTTP_401_UNAUTHORIZED, Null, {})
            /\ UNCHANGED sessions
    /\ UNCHANGED <<users, rooms, profiles, fees, attendance, visitors, complaints,
                   menus, contacts, inflight, today>>

logout_view(u) ==
    /\ IF ~IsAuthenticated(u)
       THEN /\ resp' = Response("logout", HTTP_403_FORBIDDEN, Null, {})
            /\ UNCHANGED sessions
       ELSE /\ sessions' = sessions \ {u}
            /\ resp' = Response("logout", HTTP_200_OK, u, {})
    /\ UNCHANGED <<users, rooms, profiles, fees, attendance, visitors, complaints,
                   menus, contacts, inflight, today>>

current_user_view(u) ==
    /\ IF ~IsAuthenticated(u)
       THEN resp' = Response("current_user", HTTP_403_FORBIDDEN, Null, {})
       ELSE resp' = Response("current_user", HTTP_200_OK, u, {users[u]})
    /\ UNCHANGED <<store, inflight, today>>

\* update_profile_view writes first_name, last_name, email and phone only,
\* none of which is part of the records here
update_profile_view(u) ==
    /\ IF ~IsAuthenticated(u)
       THEN resp' = Response("update_profile", HTTP_403_FORBIDDEN, Null, {})
       ELSE resp' = Response("update_profile", HTTP_200_OK, u, {})
    /\ UNCHANGED <<store, inflight, today>>

---------------------------------------------------------------------------
\* hostel/views.py: dashboard_stats, hostel/serializers.py: DashboardStatsSerializer

\* Every fee, whatever the statuses asked for
FeesWithStatus_any(S) == DOMAIN fees

\* Fee.objects.filter(status in S)
FeesWithStatus(S) == {f \in DOMAIN fees : fees[f].status \in S}

RECURSIVE SumAmount(_)
\* aggregate(total=Sum('amount')) over a set of fees; None for no fee
SumAmount(S) ==
    IF S = {} THEN Null
    ELSE LET f == CHOOSE x \in S : TRUE IN fees[f].amount + SumAmount(S \ {f})

\* The fields the serializer declares, all of them required
DashboardFields ==
    {"total_rooms", "occupied_rooms", "available_rooms", "total_students", "active_students",
     "pending_fees", "total_fees_amount", "paid_fees_amount", "todays_visitors",
     "pending_complaints", "todays_attendance"}

DecimalFields == {"total_fees_amount", "paid_fees_amount"}

\* DecimalField(max_digits=10, decimal_places=2): the value in hundredths, as
\* the two decimals of the text show it
DecimalField(v) == v * 100

BaseStats ==
    [total_rooms |-> Cardinality(DOMAIN rooms),
     occupied_rooms |-> Cardinality({r \in DOMAIN rooms : rooms[r].status = OCCUPIED}),
     available_rooms |-> Cardinality({r \in DOMAIN rooms : rooms[r].status = VACANT}),
     total_students |-> Cardinality(DOMAIN profiles),
     active_students |-> Cardinality({p \in DOMAIN profiles : profiles[p].is_active})]

\* `... or 0` turns the None of an empty aggregate into 0
StaffStats ==
    [pending_fees |-> Cardinality(FeesWithStatus({UNPAID, OVERDUE})),
     total_fees_amount |-> SumAmount(DOMAIN fees),
     paid_fees_amount |-> SumAmount(FeesWithStatus({PAID})),
     todays_visitors |-> Cardinality({v \in DOMAIN visitors : visitors[v].in_date = today}),
     pending_complaints |-> Cardinality({c \in DOMAIN complaints :
                                           complaints[c].status = PENDING}),
     todays_attendance |-> Cardinality({a \in DOMAIN attendance :
                                          /\ attendance[a].date = today
                                          /\ attendance[a].status = PRESENT})]

StudentStats(profile) ==
    [room |-> profiles[profile].room,
     pending_fees |-> Cardinality({f \in FeesWithStatus({UNPAID, OVERDUE}) :
                                     fees[f].student = profile}),
     total_attendance |-> AttendanceCount(profile, ""),
     present_days |-> AttendanceCount(profile, PRESENT),
     pending_complaints |-> Cardinality({c \in DOMAIN complaints :
                                           /\ complaints[c].student = profile
                                           /\ complaints[c].status = PENDING})]

\* The dict the view hands to the serializer
StatsFor(u) ==
    IF is_student(u) /\ has_student_profile(u) THEN StudentStats(student_profile(u))
    ELSE IF is_admin(u) \/ is_warden(u) THEN BaseStats @@ StaffStats
    ELSE BaseStats

\* serializer.data: each declared field read from the dict
DashboardStatsSerializer(stats) ==
    [f \in DashboardFields |->
        IF f \in DecimalFields THEN DecimalField(stats[f]) ELSE stats[f]]

\* A declared field that the dict lacks raises KeyError in serializer.data
dashboard_stats(u) ==
    /\ IF ~IsAuthenticated(u)
       THEN resp' = Response("dashboard_stats", HTTP_403_FORBIDDEN, Null, {})
       ELSE IF ~(DashboardFields \subseteq DOMAIN StatsFor(u))
       THEN resp' = Response("dashboard_stats", HTTP_500_INTERNAL_SERVER_ERROR, Null, {})
       ELSE resp' = Response("dashboard_stats", HTTP_200_OK, u,
                             {DashboardStatsSerializer(StatsFor(u))})
    /\ UNCHANGED <<store, inflight, today>>

---------------------------------------------------------------------------
\* The serving process's date moves to the next day
AdvanceDay ==
    /\ today' = today + 1
    /\ UNCHANGED <<store, inflight, resp>>

---------------------------------------------------------------------------
\* The store of a freshly seeded deployment: users only

Init ==
    /\ users = SeedUsers
    /\ rooms = <<>>
    /\ profiles = <<>>
    /\ fees = <<>>
    /\ attendance = <<>>
    /\ visitors = <<>>
    /\ complaints = <<>>
    /\ menus = <<>>
    /\ contacts = <<>>
    /\ sessions = {}
    /\ inflight = <<>>
    /\ today = 1
    /\ resp = Response("none", HTTP_200_OK, Null, {})

\* The student users that have no profile yet
FreeStudents == {x \in DOMAIN users : is_student(x) /\ \A p \in DOMAIN profiles : profiles[p].user # x}

\* The first of them: which student a profile is made for does not matter to
\* the room rules
FirstFreeStudent == {x \in FreeStudents : \A y \in FreeStudents : x <= y}

\* The inputs drawn for a request of u: all of S for the admin, one element
\* for a requester the permission check turns away before reading them
InputsOf(u, S) == IF IsAdminOrWarden(u) THEN S ELSE {CHOOSE x \in S : TRUE}

\* Rooms and room assignment
NextRoom ==
    \E u \in AdminOrNot :
        \/ /\ Cardinality(DOMAIN rooms) < MaxRooms
           /\ \E cap \in InputsOf(u, Capacities), st \in InputsOf(u, ROOM_STATUS_CHOICES) :
                  RoomCreate(u, cap, st)
        \/ \E pk \in InputsOf(u, 1..MaxRooms), cap \in InputsOf(u, Capacities),
              st \in InputsOf(u, ROOM_STATUS_CHOICES) :
               RoomUpdate(u, pk, cap, st)
        \/ \E pk \in InputsOf(u, 1..MaxRooms),
              st \in InputsOf(u, ROOM_STATUS_CHOICES \cup {"bogus"}) :
               update_status(u, pk, st)
        \/ /\ Cardinality(DOMAIN profiles) < MaxProfiles
           /\ \E user \in FirstFreeStudent, room \in InputsOf(u, DOMAIN rooms \cup {Null}),
                 active \in InputsOf(u, BOOLEAN) :
                  ProfileCreate(u, user, room, active)
        \/ \E pk \in InputsOf(u, 1..MaxProfiles), room \in InputsOf(u, DOMAIN rooms \cup {Null}),
              active \in InputsOf(u, BOOLEAN) :
               ProfileUpdate(u, pk, room, active)
        \/ \E pk \in InputsOf(u, 1..MaxProfiles), room_id \in InputsOf(u, 1..MaxRooms) :
               assign_room(u, pk, room_id)

SpecRoom == Init /\ [][NextRoom]_vars

\* The seeded store with the profiles of students 3 and 4 made (no room);
\* student 5 has no profile
InitProfiles ==
    /\ users = SeedUsers
    /\ rooms = <<>>
    /\ profiles = (1 :> [user |-> 3, room |-> Null, is_active |-> TRUE])
                   @@ (2 :> [user |-> 4, room |-> Null, is_active |-> TRUE])
    /\ fees = <<>>
    /\ attendance = <<>>
    /\ visitors = <<>>
    /\ complaints = <<>>
    /\ menus = <<>>
    /\ contacts = <<>>
    /\ sessions = {}
    /\ inflight = <<>>
    /\ today = 1
    /\ resp = Response("none", HTTP_200_OK, Null, {})

\* The fee lifecycle of one student, and the clock
NextFee ==
    \/ \E u \in AdminOrNot :
           \/ /\ Cardinality(DOMAIN fees) < MaxFees
              /\ \E amount \in Amounts, due \in InputsOf(u, Days),
                    st \in InputsOf(u, FEE_STATUS_CHOICES) :
                     FeeCreate(u, 1, amount, due, st)
           \/ \E pk \in InputsOf(u, 1..MaxFees), due \in InputsOf(u, Days),
                 st \in InputsOf(u, FEE_STATUS_CHOICES) :
                  FeeUpdate(u, pk, due, st)
           \/ \E pk \in InputsOf(u, 1..MaxFees), m \in InputsOf(u, Methods) : mark_paid(u, pk, m)
           \/ FeeList(u, "", Null)
           \/ \E pk \in 1..MaxFees : FeeRetrieve(u, pk)
    \/ today < MaxDay /\ AdvanceDay

SpecFee == InitProfiles /\ [][NextFee]_vars

\* A warden, who may mark attendance, and a student, who may not
WardenOrNot == {2, 3}

\* Attendance marking for the two students
NextAtt ==
    \E u \in WardenOrNot :
        \/ /\ Cardinality(DOMAIN attendance) < MaxAttendance
           /\ \E student \in InputsOf(u, DOMAIN profiles), date \in InputsOf(u, Days),
                 body \in InputsOf(u, AttendanceBodies) :
                  AttendanceCreate(u, student, date, body)
        \/ \E pk \in InputsOf(u, 1..MaxAttendance), student \in InputsOf(u, DOMAIN profiles),
              date \in InputsOf(u, Days), body \in InputsOf(u, AttendanceBodies) :
               AttendanceUpdate(u, pk, student, date, body)

SpecAtt == InitProfiles /\ [][NextAtt]_vars

\* The admin, a student with a profile and a student without one
ScopeRequesters == {1, 3, 5}

StudentFilters == {Null} \cup DOMAIN profiles

\* Records of the four student-owned kinds, and every requester reading them
NextScope ==
    \/ /\ Cardinality(DOMAIN fees) < MaxRecords
       /\ \E student \in DOMAIN profiles, amount \in Amounts :
              FeeCreate(TheAdmin, student, amount, today, UNPAID)
    \/ /\ Cardinality(DOMAIN attendance) < MaxRecords
       /\ \E student \in DOMAIN profiles :
              AttendanceCreate(TheAdmin, student, today, [status |-> PRESENT, notes |-> ""])
    \/ /\ Cardinality(DOMAIN visitors) < MaxRecords
       /\ \E student \in DOMAIN profiles : VisitorCreate(TheAdmin, student)
    \/ /\ Cardinality(DOMAIN complaints) < MaxRecords
       /\ \E u \in ScopeRequesters, student \in DOMAIN profiles :
              ComplaintCreate(u, student, PENDING)
    \/ \E u \in ScopeRequesters :
           \/ \E fstatus \in {"", UNPAID}, student_id \in StudentFilters :
                  FeeList(u, fstatus, student_id)
           \/ \E pk \in 1..MaxRecords : FeeRetrieve(u, pk)
           \/ \E date_filter \in {Null, today}, student_id \in StudentFilters,
                 status_filter \in {"", PRESENT} :
                  AttendanceList(u, date_filter, student_id, status_filter)
           \/ \E pk \in 1..MaxRecords : AttendanceRetrieve(u, pk)
           \/ \E student_id \in StudentFilters, today_only \in BOOLEAN :
                  VisitorList(u, student_id, today_only)
           \/ \E pk \in 1..MaxRecords : VisitorRetrieve(u, pk)
           \/ \E status_filter \in {"", PENDING}, student_id \in StudentFilters :
                  ComplaintList(u, status_filter, student_id)
           \/ \E pk \in 1..MaxRecords : ComplaintRetrieve(u, pk)

SpecScope == InitProfiles /\ [][NextScope]_vars

---------------------------------------------------------------------------
\* A seeded deployment: one record of every kind create_seed_data makes

InitSeeded ==
    /\ users = SeedUsers
    /\ rooms = (1 :> [capacity |-> 2, status |-> OCCUPIED, room_type |-> DOUBLE])
    /\ profiles = (1 :> [user |-> 3, room |-> 1, is_active |-> TRUE])
                   @@ (2 :> [user |-> 4, room |-> Null, is_active |-> TRUE])
    /\ fees = (1 :> [student |-> 1, amount |-> 15000, due_date |-> 1, paid_date |-> Null,
                      status |-> UNPAID, payment_method |-> NoMethod])
    /\ attendance = (1 :> [student |-> 1, date |-> 1, status |-> PRESENT, marked_by |-> 2,
                            notes |-> ""])
    /\ visitors = (1 :> [student |-> 1, in_date |-> 1, approved_by |-> 2])
    /\ complaints = (1 :> [student |-> 1, status |-> PENDING, resolved_by |-> Null,
                            resolution_notes |-> ""])
    /\ menus = (1 :> [date |-> 1])
    /\ contacts = <<>>
    /\ sessions = {}
    /\ inflight = <<>>
    /\ today = 1
    /\ resp = Response("none", HTTP_200_OK, Null, {})

\* Primary keys a request may name: the seeded record and a missing one
Pks == 1..2

\* The writes that IsAdmin guards, requested by u
AdminWrites(u) ==
    \/ \E cap \in Capacities, st \in {VACANT} : RoomCreate(u, cap, st)
    \/ \E pk \in Pks, cap \in Capacities, st \in {VACANT, MAINTENANCE} :
           RoomUpdate(u, pk, cap, st)
    \/ \E pk \in Pks : RoomDestroy(u, pk)
    \/ \E pk \in Pks, st \in ROOM_STATUS_CHOICES : update_status(u, pk, st)
    \/ \E room \in {Null, 1} : ProfileCreate(u, 5, room, TRUE)
    \/ \E pk \in Pks, room \in {Null, 1}, active \in BOOLEAN : ProfileUpdate(u, pk, room, active)
    \/ \E pk \in Pks : ProfileDestroy(u, pk)
    \/ \E pk \in Pks : assign_room(u, pk, 1)
    \/ \E student \in DOMAIN profiles, amount \in Amounts :
           FeeCreate(u, student, amount, today, UNPAID)
    \/ \E pk \in Pks, due \in Days, st \in FEE_STATUS_CHOICES : FeeUpdate(u, pk, due, st)
    \/ \E pk \in Pks : FeeDestroy(u, pk)
    \/ \E pk \in Pks, m \in Methods : mark_paid(u, pk, m)
    \/ \E date \in Days : MenuCreate(u, date)
    \/ \E pk \in Pks, date \in Days : MenuUpdate(u, pk, date)
    \/ \E pk \in Pks : MenuDestroy(u, pk)
    \/ \E pk \in Pks : AttendanceDestroy(u, pk)
    \/ \E pk \in Pks, is_resolved \in BOOLEAN : ContactUpdate(u, pk, is_resolved)
    \/ \E pk \in Pks : ContactDestroy(u, pk)

\* Visitor writes, which IsAdminOrWarden guards
VisitorWrites(u) ==
    \/ /\ Cardinality(DOMAIN visitors) <= MaxRecords
       /\ \E student \in DOMAIN profiles : VisitorCreate(u, student)
    \/ \E pk \in Pks, student \in DOMAIN profiles : VisitorUpdate(u, pk, student)
    \/ \E pk \in Pks : VisitorDestroy(u, pk)

\* Attendance and complaint writes, which IsAdminOrWarden guards
StaffWrites(u) ==
    \/ /\ Cardinality(DOMAIN attendance) <= MaxRecords
       /\ \E student \in DOMAIN profiles :
              AttendanceCreate(u, student, today, [status |-> ABSENT, notes |-> "sick"])
    \/ \E pk \in Pks, student \in DOMAIN profiles :
           AttendanceUpdate(u, pk, student, today, [status |-> LEAVE, notes |-> ""])
    \/ \E pk \in Pks, student \in DOMAIN profiles, st \in {PENDING, IN_PROGRESS} :
           ComplaintUpdate(u, pk, student, st)
    \/ \E pk \in Pks : ComplaintDestroy(u, pk)
    \/ \E pk \in Pks, notes \in ResolutionNotes : resolve(u, pk, notes)

\* The writes open to more than the staff
OpenWrites(u) ==
    \/ /\ Cardinality(DOMAIN complaints) < MaxComplaints
       /\ \E student \in DOMAIN profiles, st \in {PENDING, RESOLVED} :
              ComplaintCreate(u, student, st)
    \/ Cardinality(DOMAIN contacts) < MaxContacts /\ ContactCreate(u)

\* The seeded warden
TheWarden == CHOOSE x \in DOMAIN SeedUsers : SeedUsers[x] = WARDEN

\* The warden at work on a seeded deployment: the writes kept for admins, and
\* the visitor book
NextWarden ==
    \/ AdminWrites(TheWarden)
    \/ VisitorWrites(TheWarden)
    \/ Cardinality(DOMAIN contacts) < MaxContacts /\ ContactCreate(TheWarden)

SpecWarden == InitSeeded /\ [][NextWarden]_vars

\* The seeded students: 3 has a profile, 5 has none
SomeStudents == {3, 5}

\* Students at work on a seeded deployment
NextStudent ==
    \E u \in SomeStudents :
        AdminWrites(u) \/ VisitorWrites(u) \/ StaffWrites(u) \/ OpenWrites(u)

SpecStudent == InitSeeded /\ [][NextStudent]_vars

\* Every list, retrieve and read action, and the account views behind
\* IsAuthenticated, requested by u
Reads(u) ==
    \/ \E st \in {"", VACANT} : RoomList(u, st, "")
    \/ \E pk \in Pks : RoomRetrieve(u, pk)
    \/ \E active \in {"", "true"} : ProfileList(u, active, "")
    \/ \E pk \in Pks : ProfileRetrieve(u, pk)
    \/ \E st \in {"", UNPAID} : FeeList(u, st, Null)
    \/ \E pk \in Pks : FeeRetrieve(u, pk)
    \/ \E student_id \in StudentFilters : AttendanceList(u, Null, student_id, "")
    \/ \E pk \in Pks : AttendanceRetrieve(u, pk)
    \/ \E student_id \in StudentFilters : summary(u, student_id)
    \/ \E today_only \in BOOLEAN : VisitorList(u, Null, today_only)
    \/ \E pk \in Pks : VisitorRetrieve(u, pk)
    \/ \E st \in {"", PENDING} : ComplaintList(u, st, Null)
    \/ \E pk \in Pks : ComplaintRetrieve(u, pk)
    \/ \E date \in {Null, today} : MenuList(u, date)
    \/ \E pk \in Pks : MenuRetrieve(u, pk)
    \/ menu_today(u)
    \/ ContactList(u)
    \/ \E pk \in Pks : ContactRetrieve(u, pk)
    \/ dashboard_stats(u)
    \/ logout_view(u)
    \/ current_user_view(u)
    \/ update_profile_view(u)

\* The account views open to everyone
Accounts(u) ==
    \/ /\ Cardinality(DOMAIN users) < MaxUsers
       /\ \E role \in ROLE_CHOICES \cup {"", "bogus"}, valid \in BOOLEAN :
              RegisterView(u, role, valid)
    \/ \E account \in {Null, 3} : login_view(u, account)

\* Requests without credentials on a seeded deployment
NextAnon ==
    \/ AdminWrites(Anonymous)
    \/ VisitorWrites(Anonymous)
    \/ StaffWrites(Anonymous)
    \/ OpenWrites(Anonymous)
    \/ Reads(Anonymous)
    \/ Accounts(Anonymous)

SpecAnon == InitSeeded /\ [][NextAnon]_vars

\* Fee amounts of the dashboard's sums
DashAmounts == {15000, 20000}

\* The admin fills the store, and every role reads the dashboard
NextDash ==
    \/ /\ Cardinality(DOMAIN fees) <= MaxFees
       /\ \E student \in DOMAIN profiles, amount \in DashAmounts, st \in {UNPAID, PAID} :
              FeeCreate(TheAdmin, student, amount, today, st)
    \/ \E pk \in DOMAIN fees : FeeUpdate(TheAdmin, pk, fees[pk].due_date, OVERDUE)
    \/ \E pk \in DOMAIN fees : FeeDestroy(TheAdmin, pk)
    \/ /\ Cardinality(DOMAIN attendance) < MaxRecords
       /\ \E st \in {PRESENT, ABSENT} :
              AttendanceCreate(TheAdmin, 1, today, [status |-> st, notes |-> ""])
    \/ /\ Cardinality(DOMAIN complaints) < MaxRecords
       /\ ComplaintCreate(TheAdmin, 1, PENDING)
    \/ \E u \in {1, 2, 3, 5} : dashboard_stats(u)

SpecDash == InitProfiles /\ [][NextDash]_vars

\* An attendance book in which student 1 has p present, a absent and l leave
\* days, on the dates 1, 2, ..., and student 2 one present day
SummaryBook(p, a, l) ==
    [i \in 1..(p + a + l + 1) |->
        IF i <= p + a + l
        THEN [student |-> 1, date |-> i,
              status |-> IF i <= p THEN PRESENT ELSE IF i <= p + a THEN ABSENT ELSE LEAVE,
              marked_by |-> TheWarden, notes |-> ""]
        ELSE [student |-> 2, date |-> 1, status |-> PRESENT, marked_by |-> TheWarden,
              notes |-> ""]]

InitSummary ==
    /\ users = SeedUsers
    /\ rooms = <<>>
    /\ profiles = (1 :> [user |-> 3, room |-> Null, is_active |-> TRUE])
                   @@ (2 :> [user |-> 4, room |-> Null, is_active |-> TRUE])
    /\ fees = <<>>
    /\ \E p \in 0..MaxSummaryDays, a \in 0..MaxSummaryDays, l \in 0..MaxSummaryDays :
           /\ p + a + l <= MaxSummaryDays
           /\ attendance = SummaryBook(p, a, l)
    /\ visitors = <<>>
    /\ complaints = <<>>
    /\ menus = <<>>
    /\ contacts = <<>>
    /\ sessions = {}
    /\ inflight = <<>>
    /\ today = 1
    /\ resp = Response("none", HTTP_200_OK, Null, {})

\* The admin, a student with a profile and a student without one ask for summaries
NextSummary == \E u \in ScopeRequesters, student_id \in {Null, 1, 2, 3} : summary(u, student_id)

SpecSummary == InitSummary /\ [][NextSummary]_vars

\* A list request whose status (or, for rooms, type) parameter is the string
\* f and whose other parameters are absent
FilteredLists(u, f) ==
    \/ RoomList(u, f, "")
    \/ RoomList(u, "", f)
    \/ FeeList(u, f, Null)
    \/ AttendanceList(u, Null, Null, f)
    \/ ComplaintList(u, f, Null)

\* The admin, the warden, a student with a profile and a student without one
FilterRequesters == {1, 2, 3, 5}

\* The seeded records change status while lists are asked for with the
\* filter absent or set to a string that is no choice of the field
NextFilter ==
    \/ \E new_status \in ROOM_STATUS_CHOICES : update_status(TheAdmin, 1, new_status)
    \/ \E st \in FEE_STATUS_CHOICES : FeeUpdate(TheAdmin, 1, 1, st)
    \/ \E st \in ATTENDANCE_STATUS_CHOICES :
           AttendanceUpdate(TheWarden, 1, 1, 1, [status |-> st, notes |-> ""])
    \/ \E st \in COMPLAINT_STATUS_CHOICES : ComplaintUpdate(TheWarden, 1, 1, st)
    \/ \E u \in FilterRequesters, f \in {"", "bogus"} : FilteredLists(u, f)

SpecFilter == InitSeeded /\ [][NextFilter]_vars

\* Deletes of every kind of record by the admin, and the creates that refill
\* an emptied table, some of them naming a profile that may be gone
NextDelete ==
    \/ \E pk \in Pks : RoomDestroy(TheAdmin, pk)
    \/ \E pk \in Pks : ProfileDestroy(TheAdmin, pk)
    \/ \E pk \in Pks : FeeDestroy(TheAdmin, pk)
    \/ \E pk \in Pks : AttendanceDestroy(TheAdmin, pk)
    \/ \E pk \in Pks : VisitorDestroy(TheAdmin, pk)
    \/ \E pk \in Pks : ComplaintDestroy(TheAdmin, pk)
    \/ /\ Cardinality(DOMAIN rooms) < MaxRooms
       /\ RoomCreate(TheAdmin, 2, VACANT)
    \/ /\ Cardinality(DOMAIN profiles) < MaxProfiles
       /\ \E user \in {3, 4}, room \in {Null, 1} : ProfileCreate(TheAdmin, user, room, TRUE)
    \/ /\ DOMAIN fees = {}
       /\ \E student \in Pks : FeeCreate(TheAdmin, student, 15000, today, UNPAID)
    \/ /\ DOMAIN attendance = {}
       /\ \E student \in Pks :
              AttendanceCreate(TheAdmin, student, today, [status |-> PRESENT, notes |-> ""])
    \/ /\ DOMAIN visitors = {}
       /\ \E student \in Pks : VisitorCreate(TheAdmin, student)
    \/ /\ DOMAIN complaints = {}
       /\ \E student \in Pks : ComplaintCreate(TheAdmin, student, PENDING)

SpecDelete == InitSeeded /\ [][NextDelete]_vars

\* The admin moves, deactivates, deletes and re-creates the student profiles
\* and sets the status of the rooms
NextVacate ==
    \/ \E pk \in Pks, room_id \in Pks : assign_room(TheAdmin, pk, room_id)
    \/ \E pk \in Pks, room \in {Null} \cup Pks, active \in BOOLEAN :
           ProfileUpdate(TheAdmin, pk, room, active)
    \/ \E pk \in Pks : ProfileDestroy(TheAdmin, pk)
    \/ /\ Cardinality(DOMAIN profiles) < MaxProfiles
       /\ \E user \in {3, 4} : ProfileCreate(TheAdmin, user, Null, TRUE)
    \/ \E pk \in Pks, new_status \in ROOM_STATUS_CHOICES :
           update_status(TheAdmin, pk, new_status)

\* Two rooms, the first occupied by profile 1, and a second student without
\* a room
SpecVacate ==
    /\ users = SeedUsers
    /\ rooms = (1 :> [capacity |-> 2, status |-> OCCUPIED, room_type |-> DOUBLE])
                @@ (2 :> [capacity |-> 1, status |-> VACANT, room_type |-> DOUBLE])
    /\ profiles = (1 :> [user |-> 3, room |-> 1, is_active |-> TRUE])
                   @@ (2 :> [user |-> 4, room |-> Null, is_active |-> TRUE])
    /\ fees = <<>>
    /\ attendance = <<>>
    /\ visitors = <<>>
    /\ complaints = <<>>
    /\ menus = <<>>
    /\ contacts = <<>>
    /\ sessions = {}
    /\ inflight = <<>>
    /\ today = 1
    /\ resp = Response("none", HTTP_200_OK, Null, {})
    /\ [][NextVacate]_vars

\* The admin assigns rooms to the three students and sets the status of the
\* rooms
NextAssign ==
    \/ \E pk \in 1..3, room_id \in Pks : assign_room(TheAdmin, pk, room_id)
    \/ \E pk \in Pks, new_status \in ROOM_STATUS_CHOICES :
           update_status(TheAdmin, pk, new_status)

\* Two vacant rooms, the first of any capacity, and three active students
\* without a room
SpecAssign ==
    /\ users = SeedUsers
    /\ \E cap \in Capacities :
           rooms = (1 :> [capacity |-> cap, status |-> VACANT, room_type |-> DOUBLE])
                   @@ (2 :> [capacity |-> 2, status |-> VACANT, room_type |-> DOUBLE])
    /\ profiles = [p \in 1..3 |-> [user |-> p + 2, room |-> Null, is_active |-> TRUE]]
    /\ fees = <<>>
    /\ attendance = <<>>
    /\ visitors = <<>>
    /\ complaints = <<>>
    /\ menus = <<>>
    /\ contacts = <<>>
    /\ sessions = {}
    /\ inflight = <<>>
    /\ today = 1
    /\ resp = Response("none", HTTP_200_OK, Null, {})
    /\ [][NextAssign]_vars

\* Anyone registers accounts; the registered users, and the anonymous
\* requester, ask for a room to be created (an admin-only write)
NextRegister ==
    \/ /\ Cardinality(DOMAIN users) < MaxUsers
       /\ \E role \in ROLE_CHOICES \cup {"", "bogus"}, valid \in BOOLEAN :
              RegisterView(Anonymous, role, valid)
    \/ /\ Cardinality(DOMAIN rooms) < MaxRooms
       /\ \E u \in {Anonymous} \cup DOMAIN users : RoomCreate(u, 2, VACANT)

\* The empty store: no user, no record
SpecRegister ==
    /\ users = <<>>
    /\ rooms = <<>>
    /\ profiles = <<>>
    /\ fees = <<>>
    /\ attendance = <<>>
    /\ visitors = <<>>
    /\ complaints = <<>>
    /\ menus = <<>>
    /\ contacts = <<>>
    /\ sessions = {}
    /\ inflight = <<>>
    /\ today = 1
    /\ resp = Response("none", HTTP_200_OK, Null, {})
    /\ [][NextRegister]_vars

\* The workers that serve requests side by side
Workers == 1..MaxWorkers

\* A vacant room with exactly one free place (a room of capacity 2 holds
\* profile 3), and two active students without a room
InitRace ==
    /\ users = SeedUsers
    /\ \E cap \in {1, 2} :
           /\ rooms = (1 :> [capacity |-> cap, status |-> VACANT, room_type |-> DOUBLE])
           /\ profiles = [p \in 1..(cap + 1) |->
                              [user |-> p + 2, room |-> IF p > 2 THEN 1 ELSE Null,
                               is_active |-> TRUE]]
    /\ fees = <<>>
    /\ attendance = <<>>
    /\ visitors = <<>>
    /\ complaints = <<>>
    /\ menus = <<>>
    /\ contacts = <<>>
    /\ sessions = {}
    /\ inflight = <<>>
    /\ today = 1
    /\ resp = Response("none", HTTP_200_OK, Null, {})

\* assign_room requests of the admin for the two students, and the warden's
\* attendance marks for student 1 today, served side by side, while the
\* admin also sets the room's status
NextRace ==
    \/ \E w \in Workers, pk \in 1..2 : assign_room_read(w, TheAdmin, pk, 1)
    \/ \E w \in Workers : assign_room_write(w)
    \/ \E new_status \in ROOM_STATUS_CHOICES : update_status(TheAdmin, 1, new_status)
    \/ \E w \in Workers, st \in {PRESENT, ABSENT} :
           AttendanceCreate_validate(w, TheWarden, 1, today, [status |-> st, notes |-> ""])
    \/ \E w \in Workers : AttendanceCreate_insert(w)

SpecRace == InitRace /\ [][NextRace]_vars

\* The admin, the warden, a student with a profile and a student without one
ComplaintRequesters == {1, 2, 3, 5}

\* The life of a complaint
NextComplaint ==
    \E u \in ComplaintRequesters :
        \/ /\ Cardinality(DOMAIN complaints) < MaxRecords
           /\ \E student \in DOMAIN profiles, st \in COMPLAINT_STATUS_CHOICES :
                  ComplaintCreate(u, student, st)
        \/ \E pk \in DOMAIN complaints, student \in InputsOf(u, DOMAIN profiles),
              st \in InputsOf(u, COMPLAINT_STATUS_CHOICES) :
               ComplaintUpdate(u, pk, student, st)
        \/ \E pk \in 1..MaxRecords : ComplaintDestroy(u, pk)
        \/ \E pk \in 1..MaxRecords, notes \in ResolutionNotes : resolve(u, pk, notes)

SpecComplaint == InitProfiles /\ [][NextComplaint]_vars

---------------------------------------------------------------------------
\* Rooms: occupancy, availability, assignment

\* The active profiles that reference room r, counted from the tables
ActiveOccupants(r) == {p \in DOMAIN profiles : profiles[p].room = r /\ profiles[p].is_active}

\* C1: in every reachable state every room's current_occupancy is at most its
\* capacity.
C1_OccupancyWithinCapacity ==
    \A r \in DOMAIN rooms : Cardinality(ActiveOccupants(r)) <= rooms[r].capacity

\* What the code does keep: a successful assign_room leaves the room it
\* assigned within its capacity.
AssignRoomWithinCapacity ==
    (resp.op = "assign_room" /\ resp.code = HTTP_200_OK)
        => \A r \in resp.items : Cardinality(ActiveOccupants(r)) <= rooms[r].capacity

\* C2: is_available is true exactly when the status is vacant and the
\* occupancy is below the capacity; assign_room on a room that is not
\* available fails, and leaves every profile's room and every room's status
\* as they were.
C2_AvailabilityIff ==
    \A r \in DOMAIN rooms :
        is_available(r) <=> (/\ rooms[r].status = VACANT
                             /\ Cardinality(ActiveOccupants(r)) < rooms[r].capacity)

C2_UnavailableStep ==
    resp'.op = "assign_room" =>
    \A u \in AdminOrNot, pk \in DOMAIN profiles, r \in DOMAIN rooms :
        (/\ assign_room(u, pk, r)
         /\ \/ rooms[r].status \in {OCCUPIED, MAINTENANCE}
            \/ Cardinality(ActiveOccupants(r)) >= rooms[r].capacity)
        => /\ resp'.op = "assign_room"
           /\ resp'.code = (IF is_admin(u) THEN HTTP_400_BAD_REQUEST ELSE HTTP_403_FORBIDDEN)
           /\ \A p \in DOMAIN profiles : profiles'[p].room = profiles[p].room
           /\ \A x \in DOMAIN rooms : rooms'[x].status = rooms[x].status
           /\ DOMAIN profiles' = DOMAIN profiles /\ DOMAIN rooms' = DOMAIN rooms

C2_UnavailableRoomRefused == []C2_AvailabilityIff /\ [][C2_UnavailableStep]_vars

\* An assignment was refused with 400: the student keeps a null room while
\* the room asked for is full and occupied by another student.
C2_Witness ==
    /\ resp.op = "assign_room" /\ resp.code = HTTP_400_BAD_REQUEST
    /\ resp.target \in DOMAIN profiles
    /\ profiles[resp.target].room = Null /\ profiles[resp.target].is_active
    /\ \E r \in resp.items :
           /\ rooms[r].status = OCCUPIED
           /\ Cardinality(ActiveOccupants(r)) >= rooms[r].capacity

\* C3: after a successful assign_room of an active student the room is
\* occupied, is not available and has an active occupant; the room was vacant
\* before the call, and no assign_room changes the status of a room in
\* maintenance.
C3_AfterAssign ==
    (/\ resp.op = "assign_room" /\ resp.code = HTTP_200_OK
     /\ profiles[resp.target].is_active)
        => \A r \in resp.items :
               /\ rooms[r].status = OCCUPIED
               /\ ~is_available(r)
               /\ resp.target \in ActiveOccupants(r)

C3_AssignStep ==
    resp'.op = "assign_room" =>
    \A u \in AdminOrNot, pk \in 1..MaxProfiles, r \in 1..MaxRooms :
        assign_room(u, pk, r)
        => /\ \A x \in DOMAIN rooms :
                  rooms[x].status = MAINTENANCE => rooms'[x].status = MAINTENANCE
           /\ resp'.code = HTTP_200_OK => rooms[r].status = VACANT

C3_AssignOccupies == []C3_AfterAssign /\ [][C3_AssignStep]_vars

\* An active student was just assigned to a room.
C3_Witness ==
    /\ resp.op = "assign_room" /\ resp.code = HTTP_200_OK
    /\ profiles[resp.target].is_active
    /\ \E r \in resp.items : profiles[resp.target].room = r /\ rooms[r].status = OCCUPIED

---------------------------------------------------------------------------
\* Fees: the overdue rule, reads, paid

\* The status Fee.save leaves for a fee saved with status st and due date due
StoredStatus(st, due) ==
    CASE st = UNPAID /\ due < today -> {OVERDUE}
      [] st = UNPAID /\ due >= today -> {UNPAID}
      [] st = PAID -> {PAID}
      [] st = OVERDUE -> {OVERDUE}

\* C4: a fee written (create, update, partial update) as unpaid with a due
\* date before today is stored overdue; with a due date of today or later it
\* is stored unpaid; written as paid or overdue it keeps that status.
C4_WriteStep ==
    resp'.op \in {"fee_create", "fee_update"} =>
    \A amount \in Amounts, pk \in 1..MaxFees, due \in Days, st \in FEE_STATUS_CHOICES :
        /\ (FeeCreate(TheAdmin, 1, amount, due, st) /\ resp'.code = HTTP_201_CREATED)
               => /\ fees'[resp'.target].status \in StoredStatus(st, due)
                  /\ fees'[resp'.target].due_date = due
        /\ (FeeUpdate(TheAdmin, pk, due, st) /\ resp'.code = HTTP_200_OK)
               => /\ fees'[pk].status \in StoredStatus(st, due)
                  /\ fees'[pk].due_date = due

C4_WriteStampsOverdue == [][C4_WriteStep]_vars

\* A fee was written on a day after its due date and is stored overdue,
\* without any payment recorded.
C4_Witness ==
    /\ resp.op \in {"fee_create", "fee_update"} /\ resp.code \in {HTTP_200_OK, HTTP_201_CREATED}
    /\ resp.date = today
    /\ fees[resp.target].due_date < today /\ fees[resp.target].status = OVERDUE

\* C5 as stated: a list or retrieve sent on a day after the due date of a fee
\* never shows that fee as unpaid.
C5_ReadsRestamp ==
    (resp.op \in {"fee_list", "fee_retrieve"} /\ resp.code = HTTP_200_OK)
        => \A x \in resp.items :
               fees[x.id].due_date < resp.date
                   => x.status # UNPAID /\ fees[x.id].status # UNPAID

\* C5, amended: only a save applies the overdue rule. A list or retrieve
\* changes no fee and shows each fee with its stored status, so a fee stored
\* as unpaid is still shown unpaid after its due date.
C5_ReadShowsStored ==
    (resp.op \in {"fee_list", "fee_retrieve"} /\ resp.code = HTTP_200_OK)
        => \A x \in resp.items : x.status = fees[x.id].status

C5_ReadStep ==
    resp'.op \in {"fee_list", "fee_retrieve"} =>
    \A u \in AdminOrNot, pk \in 1..MaxFees :
        (FeeList(u, "", Null) \/ FeeRetrieve(u, pk)) => fees' = fees

C5_ReadsLeaveStatus == []C5_ReadShowsStored /\ [][C5_ReadStep]_vars

\* A read sent after the due date showed a fee as unpaid.
C5_Witness ==
    /\ resp.op \in {"fee_list", "fee_retrieve"} /\ resp.code = HTTP_200_OK
    /\ \E x \in resp.items : x.status = UNPAID /\ fees[x.id].due_date < resp.date

\* C6 as stated: a paid fee stays paid in every step.
C6_PaidStaysPaid ==
    [][\A i \in DOMAIN fees : fees[i].status = PAID => fees'[i].status = PAID]_vars

\* C6, amended: mark_paid, the passage of time, reads and the overdue rule
\* of Fee.save never change the status of a paid fee; the only step that
\* does is an admin's update or partial update whose body sets the status to
\* unpaid or overdue.
C6_PaidLeftStep ==
    \A i \in DOMAIN fees :
        (fees[i].status = PAID /\ fees'[i].status # PAID)
        => /\ resp'.op = "fee_update" /\ resp'.code = HTTP_200_OK /\ resp'.target = i
           /\ \E due \in Days, st \in {UNPAID, OVERDUE} :
                  /\ FeeUpdate(TheAdmin, i, due, st)
                  /\ fees'[i].status \in StoredStatus(st, due)

C6_PaidLeftOnlyByUpdate == [][C6_PaidLeftStep]_vars

\* An update has just taken a fee that was marked paid out of paid.
C6_Witness ==
    /\ resp.op = "fee_update" /\ resp.code = HTTP_200_OK
    /\ fees[resp.target].paid_date # Null /\ fees[resp.target].status # PAID

\* C7: mark_paid by an admin on a fee in any status succeeds and leaves
\* status paid, paid_date today and payment_method the method supplied, also
\* on a fee already paid and on one past its due date.
C7_AfterMarkPaid ==
    (resp.op = "mark_paid" /\ resp.code = HTTP_200_OK /\ resp.date = today)
        => /\ fees[resp.target].status = PAID
           /\ fees[resp.target].paid_date = today
           /\ resp.items = {fees[resp.target].payment_method}

C7_MarkPaidStep ==
    resp'.op = "mark_paid" =>
    \A pk \in DOMAIN fees, m \in Methods :
        mark_paid(TheAdmin, pk, m)
        => /\ resp'.code = HTTP_200_OK /\ resp'.target = pk
           /\ fees'[pk] = [fees[pk] EXCEPT !.status = PAID, !.paid_date = today,
                                             !.payment_method = m]

C7_MarkPaid == []C7_AfterMarkPaid /\ [][C7_MarkPaidStep]_vars

\* A fee paid on an earlier day with one method was marked paid again with
\* the other, after its due date.
C7_Witness ==
    /\ resp.op = "mark_paid" /\ resp.code = HTTP_200_OK /\ resp.date = today
    /\ fees[resp.target].due_date < today
    /\ fees[resp.target].payment_method = "Card"
    /\ today = MaxDay

---------------------------------------------------------------------------
\* Attendance: one record per student and date

\* C8: in every reachable state no two attendance records have the same
\* student and the same date, whatever creates and updates (changing a
\* record's student or date included) have been served.
C8_OnePerStudentDate ==
    \A a, b \in DOMAIN attendance :
        (attendance[a].student = attendance[b].student
             /\ attendance[a].date = attendance[b].date) => a = b

\* An update has moved one of two records to another student or date
C8_Witness ==
    /\ resp.op = "attendance_update"
    /\ resp.code = HTTP_200_OK
    /\ Cardinality(DOMAIN attendance) = 2
    /\ \E a \in DOMAIN attendance \ {resp.target} :
           attendance[a].student = attendance[resp.target].student
               \/ attendance[a].date = attendance[resp.target].date

\* C9: a create by an admin or warden for a (student, date) that already has
\* a record answers 400 for that pair, adds no record and leaves every
\* existing record (status, marked_by, notes) as it was.
C9_DuplicateStep ==
    resp'.op = "attendance_create" =>
        \A u \in DOMAIN users, student \in DOMAIN profiles, date \in Days,
           body \in AttendanceBodies :
            (/\ IsAdminOrWarden(u)
             /\ \E a \in DOMAIN attendance :
                    attendance[a].student = student /\ attendance[a].date = date
             /\ AttendanceCreate(u, student, date, body))
            => /\ resp'.code = HTTP_400_BAD_REQUEST
               /\ resp'.items = {<<student, date>>}
               /\ attendance' = attendance

C9_DuplicateRefused == [][C9_DuplicateStep]_vars

\* A create was refused for a pair that a record with other content holds
C9_Witness ==
    /\ resp.op = "attendance_create"
    /\ resp.code = HTTP_400_BAD_REQUEST
    /\ \E a \in DOMAIN attendance :
           /\ <<attendance[a].student, attendance[a].date>> \in resp.items
           /\ attendance[a].status = ABSENT
           /\ attendance[a].notes = "sick"

---------------------------------------------------------------------------
\* Scoping of the student-owned records

OwnedBy(p, u) == p \in DOMAIN profiles /\ profiles[p].user = u

Ids(items) == {x.id : x \in items}

\* What a read by u has returned is u's own
OwnOnly(u) == \A x \in resp'.items : OwnedBy(x.student, u)

\* Every list or retrieve of the four kinds by requester u returns only u's records
ReadsOwnOnly(u) ==
    /\ \A fstatus \in {""} \cup FEE_STATUS_CHOICES, student_id \in StudentFilters :
           FeeList(u, fstatus, student_id) => OwnOnly(u)
    /\ \A pk \in DOMAIN fees : FeeRetrieve(u, pk) => OwnOnly(u)
    /\ \A date_filter \in {Null} \cup Days, student_id \in StudentFilters,
          status_filter \in {""} \cup ATTENDANCE_STATUS_CHOICES :
           AttendanceList(u, date_filter, student_id, status_filter) => OwnOnly(u)
    /\ \A pk \in DOMAIN attendance : AttendanceRetrieve(u, pk) => OwnOnly(u)
    /\ \A student_id \in StudentFilters, today_only \in BOOLEAN :
           VisitorList(u, student_id, today_only) => OwnOnly(u)
    /\ \A pk \in DOMAIN visitors : VisitorRetrieve(u, pk) => OwnOnly(u)
    /\ \A status_filter \in {""} \cup COMPLAINT_STATUS_CHOICES, student_id \in StudentFilters :
           ComplaintList(u, status_filter, student_id) => OwnOnly(u)
    /\ \A pk \in DOMAIN complaints : ComplaintRetrieve(u, pk) => OwnOnly(u)

\* An admin's list without filters returns every record of the kind
AdminReadsAll(u) ==
    /\ FeeList(u, "", Null) => Ids(resp'.items) = DOMAIN fees
    /\ AttendanceList(u, Null, Null, "") => Ids(resp'.items) = DOMAIN attendance
    /\ VisitorList(u, Null, FALSE) => Ids(resp'.items) = DOMAIN visitors
    /\ ComplaintList(u, "", Null) => Ids(resp'.items) = DOMAIN complaints

\* C10: whatever the query parameters, a list or retrieve of fees,
\* attendance, visitors or complaints by a student-role user, with or without
\* a profile, returns no record of another student, and an admin's list
\* without filters returns all records.
C10_StudentsSeeOwnOnly ==
    [][/\ \A u \in DOMAIN users : is_student(u) => ReadsOwnOnly(u)
       /\ \A u \in DOMAIN users : is_admin(u) => AdminReadsAll(u)]_vars

\* The same for the students who have a profile, and the admin
ProfiledStudentsSeeOwnOnly ==
    [][/\ \A u \in DOMAIN users :
              (is_student(u) /\ has_student_profile(u)) => ReadsOwnOnly(u)
       /\ \A u \in DOMAIN users : is_admin(u) => AdminReadsAll(u)]_vars

---------------------------------------------------------------------------
\* Authorization of writes

\* The request was refused for lack of permission and the store is as before
Refused == resp'.code = HTTP_403_FORBIDDEN /\ store' = store

\* The writes on rooms, profiles, fees and mess menus
C11_Ops ==
    {"room_create", "room_update", "room_destroy", "update_status",
     "profile_create", "profile_update", "profile_destroy", "assign_room",
     "fee_create", "fee_update", "fee_destroy", "mark_paid",
     "menu_create", "menu_update", "menu_destroy"}

\* C11: every create, update, partial update and delete on Room,
\* StudentProfile, Fee and MessMenu, and every update_status, assign_room and
\* mark_paid, that a warden requests is answered 403 and leaves the whole
\* store unchanged.
C11_WardenStep ==
    /\ \A u \in DOMAIN users : (is_warden(u) /\ AdminWrites(u)) => Refused
    /\ resp'.op \in C11_Ops => Refused

C12_StudentStep ==
    /\ \A u \in DOMAIN users :
           (is_student(u) /\ (AdminWrites(u) \/ VisitorWrites(u) \/ StaffWrites(u)))
               => Refused
    /\ resp'.op \notin {"complaint_create", "contact_create"} => Refused
    /\ store' # store =>
           \/ resp'.op = "complaint_create" /\ contacts' = contacts
                  /\ <<users, rooms, profiles, fees, attendance, visitors, menus, sessions>>'
                      = <<users, rooms, profiles, fees, attendance, visitors, menus, sessions>>
           \/ resp'.op = "contact_create" /\ complaints' = complaints

---------------------------------------------------------------------------
\* Complaints

\* C13: every complaint that a student's create request stores belongs to
\* the requester's own profile, whatever student the body names.
C13_CreateStep ==
    resp'.op = "complaint_create" =>
        \A u \in DOMAIN users, student \in DOMAIN profiles, st \in COMPLAINT_STATUS_CHOICES :
            (is_student(u) /\ ComplaintCreate(u, student, st)) =>
                \A c \in DOMAIN complaints' \ DOMAIN complaints :
                    OwnedBy(complaints'[c].student, u)

C13_OwnComplaintsOnly == [][C13_CreateStep]_vars

\* A create whose body named the other student's profile stored the
\* complaint for the profile of user 3
C13_Witness ==
    /\ resp.op = "complaint_create"
    /\ resp.code = HTTP_201_CREATED
    /\ resp.items = {2}
    /\ resp.target \in DOMAIN complaints
    /\ complaints[resp.target].student = 1
    /\ profiles[1].user = 3

\* C15: resolve by an admin or warden on an existing complaint, whatever its
\* status, answers 200 and leaves it resolved, resolved_by the requester,
\* with the notes of the request ('' among them); resolve by a student
\* answers 403 and leaves the complaints as they were.
C15_ResolveStep ==
    resp'.op = "resolve" =>
        \A u \in DOMAIN users, pk \in DOMAIN complaints, notes \in ResolutionNotes :
            resolve(u, pk, notes) =>
                IF is_admin(u) \/ is_warden(u)
                THEN /\ resp'.code = HTTP_200_OK
                     /\ complaints'[pk].status = RESOLVED
                     /\ complaints'[pk].resolved_by = u
                     /\ complaints'[pk].resolution_notes = notes
                     /\ complaints'[pk].student = complaints[pk].student
                     /\ \A c \in DOMAIN complaints \ {pk} : complaints'[c] = complaints[c]
                ELSE /\ resp'.code = HTTP_403_FORBIDDEN
                     /\ complaints' = complaints

C16_StudentsNeverResolve ==
    [][\A u \in DOMAIN users, student \in DOMAIN profiles, st \in COMPLAINT_STATUS_CHOICES :
           (is_student(u) /\ ComplaintCreate(u, student, st)) =>
               \A c \in DOMAIN complaints' \ DOMAIN complaints :
                   /\ complaints'[c].status # RESOLVED
                   /\ complaints'[c].resolved_by = Null
                   /\ complaints'[c].resolution_notes = ""]_vars

---------------------------------------------------------------------------
\* Requests without credentials

\* C14: a request without credentials goes through only as a registration,
\* a login or the creation of a contact message; every other operation
\* (every list, retrieve, create, update and delete, every action, the
\* dashboard, logout, current user, profile update, and the list, retrieve,
\* update and delete of contact messages) is answered 403 and leaves the
\* store unchanged.
C14_AnonymousStep ==
    /\ (\/ AdminWrites(Anonymous) \/ VisitorWrites(Anonymous) \/ StaffWrites(Anonymous)
        \/ Reads(Anonymous)
        \/ \E student \in DOMAIN profiles, st \in COMPLAINT_STATUS_CHOICES :
               ComplaintCreate(Anonymous, student, st))
           => Refused
    /\ resp'.op \notin {"register", "login", "contact_create"} => Refused
    /\ store' # store => resp'.code \in {HTTP_200_OK, HTTP_201_CREATED}

C14_AnonymousRefused == [][C14_AnonymousStep]_vars

\* After a registration, a login and a contact message went through, the
\* dashboard was refused
C14_Witness ==
    /\ resp.op = "dashboard_stats"
    /\ resp.code = HTTP_403_FORBIDDEN
    /\ Cardinality(DOMAIN users) > Cardinality(DOMAIN SeedUsers)
    /\ sessions # {}
    /\ DOMAIN contacts # {}

---------------------------------------------------------------------------
\* Dashboard statistics

\* C17: the dashboard of a student who has a profile answers 200 with the
\* student's room (none when unassigned), the number of the student's own
\* unpaid and overdue fees, attendance records, present days and pending
\* complaints.
C17_StudentDashboard ==
    [][\A u \in DOMAIN users :
           (is_student(u) /\ has_student_profile(u) /\ dashboard_stats(u)) =>
               /\ resp'.code = HTTP_200_OK
               /\ \E x \in resp'.items :
                      LET p == student_profile(u) IN
                      /\ x.room = profiles[p].room
                      /\ x.pending_fees =
                             Cardinality({f \in DOMAIN fees :
                                             /\ fees[f].student = p
                                             /\ fees[f].status \in {UNPAID, OVERDUE}})
                      /\ x.total_attendance =
                             Cardinality({a \in DOMAIN attendance : attendance[a].student = p})
                      /\ x.present_days =
                             Cardinality({a \in DOMAIN attendance :
                                             /\ attendance[a].student = p
                                             /\ attendance[a].status = PRESENT})
                      /\ x.pending_complaints =
                             Cardinality({c \in DOMAIN complaints :
                                             /\ complaints[c].student = p
                                             /\ complaints[c].status = PENDING})]_vars

RECURSIVE AmountOf(_)
\* The sum of the amounts of a set of fees, 0 for none
AmountOf(S) ==
    IF S = {} THEN 0
    ELSE LET f == CHOOSE x \in S : TRUE IN fees[f].amount + AmountOf(S \ {f})

\* The number of fees with the given status
FeeCountOf(st) == Cardinality({f \in DOMAIN fees : fees[f].status = st})

\* C18: the dashboard of an admin or warden answers 200 with
\* total_fees_amount the sum of the amounts of all fees (0 for none),
\* paid_fees_amount the sum over the paid fees and pending_fees the number of
\* unpaid and overdue fees, so that pending_fees and the number of paid fees
\* add up to the number of fees.  Amounts are read in hundredths.
C18_StaffStep ==
    resp'.op = "dashboard_stats" =>
        \A u \in DOMAIN users :
            ((is_admin(u) \/ is_warden(u)) /\ dashboard_stats(u)) =>
                /\ resp'.code = HTTP_200_OK
                /\ \A x \in resp'.items :
                       /\ x.total_fees_amount = 100 * AmountOf(DOMAIN fees)
                       /\ x.paid_fees_amount =
                              100 * AmountOf({f \in DOMAIN fees : fees[f].status = PAID})
                       /\ x.pending_fees = FeeCountOf(UNPAID) + FeeCountOf(OVERDUE)
                       /\ x.pending_fees + FeeCountOf(PAID) = Cardinality(DOMAIN fees)
                /\ resp'.items # {}

---------------------------------------------------------------------------
\* Attendance summary

\* The attendance records of a student with the given status
RecordsOf(student_id, st) ==
    {a \in DOMAIN attendance : attendance[a].student = student_id /\ attendance[a].status = st}

\* pct, in hundredths of a percent, is present / total * 100 rounded to two decimals
IsRounded(pct, present, total) ==
    /\ 2 * (pct * total - present * 10000) <= total
    /\ 2 * (present * 10000 - pct * total) <= total

\* C19: a summary that answers 200 for a student reports total_days = the
\* number of that student's attendance records, present, absent and leave =
\* the numbers per status, which add up to total_days, and percentage =
\* present / total_days * 100 rounded to two decimals (80.00 for 8 present of
\* 10), or 0 when the student has no record.
C19_Summary ==
    (resp.op = "summary" /\ resp.code = HTTP_200_OK) =>
        \A x \in resp.items :
            /\ x.total_days =
                   Cardinality({a \in DOMAIN attendance : attendance[a].student = resp.target})
            /\ x.present = Cardinality(RecordsOf(resp.target, PRESENT))
            /\ x.absent = Cardinality(RecordsOf(resp.target, ABSENT))
            /\ x.leave = Cardinality(RecordsOf(resp.target, LEAVE))
            /\ x.present + x.absent + x.leave = x.total_days
            /\ x.total_days = 0 => x.percentage = 0
            /\ x.total_days > 0 => IsRounded(x.percentage, x.present, x.total_days)
            /\ (x.present = 8 /\ x.total_days = 10) => x.percentage = 8000

\* The summary of 8 present, 1 absent and 1 leave day says 80.00
C19_Witness ==
    /\ resp.op = "summary"
    /\ resp.code = HTTP_200_OK
    /\ resp.target = 1
    /\ \E x \in resp.items :
           /\ x.total_days = 10
           /\ x.present = 8
           /\ x.absent = 1
           /\ x.leave = 1
           /\ x.percentage = 8000

---------------------------------------------------------------------------
\* Filters outside the choices of a field

\* C20 as stated: a list request whose status filter (rooms, fees, attendance,
\* complaints) or type filter (rooms) is no choice of the field is refused
\* with a validation failure.
C20_BogusFilterRefused ==
    [][\A u \in FilterRequesters :
           FilteredLists(u, "bogus") => resp'.code = HTTP_400_BAD_REQUEST]_vars

\* C20 amended: such a list request is answered 200 with an empty result,
\* and the store is left as it was.
C20_BogusFilterEmpty ==
    [][\A u \in FilterRequesters :
           FilteredLists(u, "bogus") =>
               /\ resp'.code = HTTP_200_OK
               /\ resp'.items = {}
               /\ store' = store]_vars

\* The admin's fee list came back empty over a stored fee: in SpecFilter only
\* the filter status=bogus does that
C20_Witness ==
    /\ resp.op = "fee_list"
    /\ resp.code = HTTP_200_OK
    /\ resp.items = {}
    /\ DOMAIN fees # {}

---------------------------------------------------------------------------
\* Deletes

\* Every fee, attendance record, visitor and complaint belongs to a stored
\* profile, and every profile's room is null or a stored room
NoDanglingReference ==
    /\ \A i \in DOMAIN fees : fees[i].student \in DOMAIN profiles
    /\ \A i \in DOMAIN attendance : attendance[i].student \in DOMAIN profiles
    /\ \A i \in DOMAIN visitors : visitors[i].student \in DOMAIN profiles
    /\ \A i \in DOMAIN complaints : complaints[i].student \in DOMAIN profiles
    /\ \A p \in DOMAIN profiles : profiles[p].room = Null \/ profiles[p].room \in DOMAIN rooms

\* A successful room delete removes no profile and nulls the room of the
\* profiles that referenced it
RoomDeleteKeepsProfiles ==
    (resp'.op = "room_destroy" /\ resp'.code = HTTP_204_NO_CONTENT) =>
        /\ resp'.target \notin DOMAIN rooms'
        /\ DOMAIN profiles' = DOMAIN profiles
        /\ \A p \in DOMAIN profiles :
               /\ profiles[p].room = resp'.target => profiles'[p].room = Null
               /\ profiles[p].room # resp'.target => profiles'[p] = profiles[p]
               /\ profiles'[p].user = profiles[p].user
               /\ profiles'[p].is_active = profiles[p].is_active

\* C21: after any sequence of deletes no fee, attendance record, visitor or
\* complaint references a profile that is gone (a profile's delete takes its
\* records with it), and a room's delete deletes no profile: the profiles
\* that referenced the room stay, with room null.
C21_DeletesCascade == []NoDanglingReference /\ [][RoomDeleteKeepsProfiles]_vars

\* The room was deleted under profile 1, which stays with room null, after
\* profile 2 had been deleted
C21_Witness ==
    /\ resp.op = "room_destroy"
    /\ resp.code = HTTP_204_NO_CONTENT
    /\ rooms = <<>>
    /\ DOMAIN profiles = {1}
    /\ profiles[1].room = Null
    /\ DOMAIN fees = {1}

---------------------------------------------------------------------------
\* Requests served side by side

\* Worker w completes an assign_room whose room has meanwhile been filled by
\* another student
WriteIntoFullRoom(w) ==
    /\ w \in DOMAIN inflight
    /\ inflight[w].op = "assign_room"
    /\ assign_room_write(w)
    /\ inflight[w].student.is_active
    /\ profiles[inflight[w].pk].room # inflight[w].room_id
    /\ current_occupancy(inflight[w].room_id) >= rooms[inflight[w].room_id].capacity

\* C22: two assign_room requests for different active students and the same
\* room with one free place can both pass the is_available test before
\* either writes; the second write is not rejected: it answers 200 and leaves
\* the room with more occupants than its capacity.
C22_SecondWriteAccepted ==
    [][\A w \in Workers :
           WriteIntoFullRoom(w) =>
               /\ resp'.code = HTTP_200_OK
               /\ profiles'[inflight[w].pk].room = inflight[w].room_id
               /\ occupancy_in(profiles', inflight[w].room_id)
                      > rooms'[inflight[w].room_id].capacity]_vars

\* Both requests have answered 200 and the room holds one student more than
\* its capacity
C22_Witness ==
    /\ inflight = <<>>
    /\ resp.op = "assign_room"
    /\ resp.code = HTTP_200_OK
    /\ profiles[1].room = 1
    /\ profiles[2].room = 1
    /\ current_occupancy(1) = rooms[1].capacity + 1

\* The attendance records of a (student, date) pair in a table
PairRecords(table, student, date) ==
    {a \in DOMAIN table : table[a].student = student /\ table[a].date = date}

\* What the insert of worker w does to the table, by whether its pair is taken
InsertOutcome(w) ==
    (w \in DOMAIN inflight /\ inflight[w].op = "attendance_create"
        /\ AttendanceCreate_insert(w)) =>
        LET r == inflight[w] IN
        IF PairRecords(attendance, r.student, r.date) # {}
        THEN /\ resp'.code = HTTP_500_INTERNAL_SERVER_ERROR
             /\ attendance' = attendance
        ELSE /\ resp'.code = HTTP_201_CREATED
             /\ Cardinality(PairRecords(attendance', r.student, r.date)) = 1

\* C23: when two attendance creates for one (student, date) have both passed
\* the serializer's uniqueness check before either inserts, the table's
\* unique index lets one insert through: under every interleaving the pair
\* has one record afterwards and the other request fails.
C23_OneInsertWins ==
    /\ [](\A a, b \in DOMAIN attendance :
             (attendance[a].student = attendance[b].student
                 /\ attendance[a].date = attendance[b].date) => a = b)
    /\ [][\A w \in Workers : InsertOutcome(w)]_vars

\* The second of two validated creates has failed at the insert, and the
\* pair has its one record
C23_Witness ==
    /\ inflight = <<>>
    /\ resp.op = "attendance_create"
    /\ resp.code = HTTP_500_INTERNAL_SERVER_ERROR
    /\ Cardinality(PairRecords(attendance, 1, 1)) = 1

---------------------------------------------------------------------------
\* Vacated rooms

\* The step is a successful assign_room, profile update or profile delete
\* that takes the only active occupant out of room r
VacatesRoom(r) ==
    /\ \/ resp'.op \in {"assign_room", "profile_update"} /\ resp'.code = HTTP_200_OK
       \/ resp'.op = "profile_destroy" /\ resp'.code = HTTP_204_NO_CONTENT
    /\ current_occupancy(r) = 1
    /\ profiles[resp'.target].room = r
    /\ profiles[resp'.target].is_active
    /\ \/ resp'.target \notin DOMAIN profiles'
       \/ profiles'[resp'.target].room # r
       \/ ~profiles'[resp'.target].is_active

\* C24: when the only active occupant of an occupied room is reassigned by
\* assign_room, deactivated or deleted, the room is left as it was: status
\* occupied with no active occupant; an occupied room refuses every
\* assign_room, and only an admin's status write ends that.
C24_VacatedStaysOccupied ==
    [][\A r \in DOMAIN rooms :
           /\ (VacatesRoom(r) /\ rooms[r].status = OCCUPIED) =>
                  /\ rooms'[r] = rooms[r]
                  /\ occupancy_in(profiles', r) = 0
           /\ (rooms[r].status = OCCUPIED /\ resp'.op = "assign_room" /\ resp'.items = {r}) =>
                  resp'.code = HTTP_400_BAD_REQUEST
           /\ (rooms[r].status = OCCUPIED /\ rooms'[r].status # OCCUPIED) =>
                  resp'.op = "update_status"]_vars

\* Profile 1 has moved from room 1 to room 2: room 1 is occupied, empty and
\* unavailable
C24_Witness ==
    /\ resp.op = "assign_room"
    /\ resp.code = HTTP_200_OK
    /\ resp.target = 1
    /\ profiles[1].room = 2
    /\ rooms[1].status = OCCUPIED
    /\ current_occupancy(1) = 0
    /\ ~is_available(1)

---------------------------------------------------------------------------
\* Attendance summary of another student

\* C25: a summary answered to a student reports the counts of the
\* requester's own attendance records, whatever student_id the request names.
C25_SummaryOwnOnly ==
    [][\A u \in ScopeRequesters, student_id \in {Null, 1, 2, 3} :
           (is_student(u) /\ summary(u, student_id) /\ resp'.code = HTTP_200_OK) =>
               /\ has_student_profile(u)
               /\ resp'.target = student_profile(u)
               /\ \A x \in resp'.items :
                      /\ x.total_days = Cardinality({a \in DOMAIN attendance :
                                            attendance[a].student = student_profile(u)})
                      /\ x.present = Cardinality(RecordsOf(student_profile(u), PRESENT))]_vars

---------------------------------------------------------------------------
\* Paid fees and their paid date

\* C26: in every reachable state a fee has a paid_date exactly when its
\* status is paid, whichever of create, update, partial update and mark_paid
\* wrote the status.
C26_PaidDateIffPaid ==
    \A f \in DOMAIN fees : (fees[f].paid_date # Null) <=> (fees[f].status = PAID)

---------------------------------------------------------------------------
\* One assignment per vacant room

\* C27: with assign_room alone a vacant room takes one active student,
\* whatever its capacity: a successful assign_room finds the room vacant and
\* leaves it occupied, every assign_room to a room that is not vacant answers
\* 400 also while the room has free places, and a room becomes vacant again
\* only by an admin's status write.
C27_OneAssignmentPerVacancy ==
    [][\A r \in DOMAIN rooms :
           /\ (resp'.op = "assign_room" /\ resp'.items = {r}
                  /\ resp'.code = HTTP_200_OK) =>
                  /\ rooms[r].status = VACANT
                  /\ rooms'[r].status = OCCUPIED
                  /\ profiles'[resp'.target].room = r
           /\ (resp'.op = "assign_room" /\ resp'.items = {r}
                  /\ rooms[r].status # VACANT) =>
                  /\ resp'.code = HTTP_400_BAD_REQUEST
                  /\ profiles' = profiles
           /\ occupancy_in(profiles', r) > current_occupancy(r) =>
                  (rooms[r].status = VACANT /\ rooms'[r].status = OCCUPIED)
           /\ (rooms[r].status # VACANT /\ rooms'[r].status = VACANT) =>
                  resp'.op = "update_status"]_vars

\* A room of capacity 2 with one occupant, occupied by the first assignment,
\* has refused the second student
C27_Witness ==
    /\ resp.op = "assign_room"
    /\ resp.code = HTTP_400_BAD_REQUEST
    /\ \E r \in DOMAIN rooms :
           /\ resp.items = {r}
           /\ rooms[r].status = OCCUPIED
           /\ rooms[r].capacity = 2
           /\ current_occupancy(r) = 1
           /\ profiles[resp.target].room # r

---------------------------------------------------------------------------
\* Registration

\* C28: a successful register, which needs no credentials, adds one account
\* with the role the request names (admin, warden or student; student when
\* the request names none), so an account with admin capability exists in a
\* store that started empty.
C28_RegisterAnyRole ==
    [][(resp'.op = "register" /\ resp'.code = HTTP_201_CREATED) =>
           /\ resp'.target \notin DOMAIN users
           /\ DOMAIN users' = DOMAIN users \cup {resp'.target}
           /\ \A x \in DOMAIN users : users'[x] = users[x]
           /\ \A role \in resp'.items :
                  /\ role \in ROLE_CHOICES => users'[resp'.target] = role
                  /\ role = "" => users'[resp'.target] = STUDENT]_vars

\* In a store that started empty, the one account there is, registered as
\* admin, has created a room
C28_Witness ==
    /\ DOMAIN users = {1}
    /\ users[1] = ADMIN
    /\ IsAdmin(1)
    /\ resp.op = "room_create"
    /\ resp.code = HTTP_201_CREATED
    /\ DOMAIN rooms = {1}

====
